---------------------------- MODULE Spec2Model ----------------------------
(***************************************************************************)
(* bucket-streamer: one WebSocket connection of the frame server           *)
(* (crates/bucket-streamer/src/server/websocket.rs) and the Session object *)
(* of crates/bucket-streamer/src/pipeline/session.rs.                       *)
(*                                                                         *)
(* The connection task is sequential; every .await of handle_session and   *)
(* handle_message is one step of the model.  The client, the object store, *)
(* the blocking worker and the transport are the environment: what they    *)
(* answer is chosen with \E at the step that awaits them.  Connections     *)
(* share nothing mutable (AppState is an Arc of immutable values), so one   *)
(* connection is modelled.                                                 *)
(***************************************************************************)
EXTENDS Integers, Sequences, FiniteSets, TLC

VARIABLES
    pc,          \* where the connection task is suspended
    video_path,  \* websocket.rs:28  Option<String>
    video_data,  \* websocket.rs:29  Option<Bytes>
    loc,         \* locals of the handler in progress
    log,         \* history: what was received, awaited and sent, in order
    session,     \* a pipeline::session::Session value
    decoder,     \* a pipeline::decoder::Decoder value, or None
    calls,       \* history: the decode invocations made on the decoder
    encoder,     \* a pipeline::encoder::JpegEncoder value, or None
    elog,        \* history: the quality supplied last to the encoder, its calls
    config,      \* a config::Config value
    validations, \* history: the configurations validated, with the results
    extraction,  \* extract_frame_offsets: its input, locals and result
    client       \* streaming-cli run_benchmark: its locals and what it was sent

vars ==
    <<pc, video_path, video_data, loc, log, session, decoder, calls, encoder, elog,
      config, validations, extraction, client>>

---------------------------------------------------------------------------
(* Bounds *)

\* inbound transport events one connection receives
MaxMsgs == 3
\* frame requests in one RequestFrames
MaxBatch == 3
\* inbound events plus frame requests one connection receives
MaxWork == 5
\* sends the transport refuses on one connection
MaxSendFail == 2

---------------------------------------------------------------------------
(* Values *)

None == <<>>
Some(x) == <<x>>
IsSome(o) == o # <<>>
Unwrap(o) == o[1]

\* `len as u32` (websocket.rs:161).  A usize below 2^32 is kept as it is; the
\* integers of this model are below 2^31, and a JPEG of one HEVC picture is
\* far below that, so the cast never truncates here.
AsU32(n) == n

\* Object paths a client names.  "junk.bin" holds bytes that are no video.
Paths == {"a.mp4", "b.mp4", "junk.bin"}

\* The bytes fetch_all returns for an object: identified by the object.
BytesOf(p) == [obj |-> p]

\* Decoder::new succeeds on these bytes (a container with an HEVC stream)
IsVideo(d) == d.obj # "junk.bin"

\* protocol.rs FrameRequest
FrameRequest(off, irap, idx) == [offset |-> off, irap_offset |-> irap, index |-> idx]

Requests ==
    { FrameRequest(10, 10, 0), FrameRequest(99, 0, 1), FrameRequest(20, 30, 2) }

RECURSIVE SeqsUpTo(_, _)
SeqsUpTo(S, n) ==
    IF n = 0 THEN {<<>>}
    ELSE LET shorter == SeqsUpTo(S, n - 1)
         IN  shorter \cup {Append(s, x) : s \in {t \in shorter : Len(t) = n - 1}, x \in S}

Batches == SeqsUpTo(Requests, MaxBatch)

\* The length of the JPEG of the picture at an offset of a video: the
\* encoder is deterministic, so it is a function of the picture.
JpegLen(obj, off) == (IF obj = "a.mp4" THEN 1 ELSE 2) + (off % 3)

\* ClientMessage (protocol.rs)
SetVideo(p) == [type |-> "SetVideo", path |-> p]
RequestFrames(fs) == [type |-> "RequestFrames", frames |-> fs]

\* Text frames a client sends: a JSON object with a type tag, or no JSON
Texts ==
    {[json |-> TRUE, body |-> SetVideo(p)] : p \in Paths}
    \cup {[json |-> TRUE, body |-> RequestFrames(b)] : b \in Batches}
    \cup {[json |-> TRUE, body |-> [type |-> "Unknown"]], [json |-> FALSE]}

\* ClientMessage::from_json: serde accepts the two tagged variants only
from_json(text) ==
    IF ~text.json THEN [ok |-> FALSE, err |-> "expected value"]
    ELSE IF text.body.type \in {"SetVideo", "RequestFrames"}
         THEN [ok |-> TRUE, msg |-> text.body]
         ELSE [ok |-> FALSE, err |-> "unknown variant"]

\* ServerMessage (protocol.rs) as sent in a text frame, and the other frames
VideoSetMsg(p, okv) == [t |-> "text", type |-> "VideoSet", path |-> p, ok |-> okv]
FrameMsg(idx, off, sz) == [t |-> "text", type |-> "Frame", index |-> idx, offset |-> off, size |-> sz]
FrameErrorMsg(idx, off, e) == [t |-> "text", type |-> "FrameError", index |-> idx, offset |-> off, error |-> e]
ErrorMsg(m) == [t |-> "text", type |-> "Error", message |-> m]
BinaryFrame(jpeg) == [t |-> "binary", type |-> "Binary", jpeg |-> jpeg]
PongFrame(payload) == [t |-> "pong", type |-> "Pong", payload |-> payload]

NoLoc ==
    [path |-> "", frames |-> <<>>, clone |-> None, i |-> 0, result |-> None,
     err |-> "", payload |-> ""]


---------------------------------------------------------------------------
(* History *)

RecvEv(e) == [ev |-> "recv", in |-> e]
StoreEv(op, p, r) == [ev |-> op, path |-> p, r |-> r]
SpawnEv(k, req, data) == [ev |-> "spawn", k |-> k, req |-> req, data |-> data]
DoneEv(k, res) == [ev |-> "done", k |-> k, result |-> res]
\* k: the position in the batch of the request a frame answers (0: none)
SendEv(frame, okv, k) == [ev |-> "send", frame |-> frame, ok |-> okv, k |-> k]

IsRecv(e) == e.ev = "recv"
IsSent(e) == e.ev = "send" /\ e.ok

\* the inbound events received so far
Received == SelectSeq(log, IsRecv)

IsBatchText(e) ==
    e.in.kind = "text" /\ from_json(e.in.text).ok
    /\ from_json(e.in.text).msg.type = "RequestFrames"

RECURSIVE SumFrames(_)
SumFrames(s) ==
    IF s = <<>> THEN 0
    ELSE (IF IsBatchText(Head(s)) THEN Len(from_json(Head(s).in.text).msg.frames) ELSE 0)
         + SumFrames(Tail(s))

\* frame requests received so far
FramesReceived == SumFrames(Received)

---------------------------------------------------------------------------
(* The worker: process_frame on a blocking thread *)

Jpeg(data, off) == [obj |-> data.obj, offset |-> off, len |-> JpegLen(data.obj, off)]
OkJpeg(j) == [tag |-> "ok", jpeg |-> j]
ErrFrame(e) == [tag |-> "err", error |-> e]
JoinErr == [tag |-> "join", error |-> "task panicked"]

\* process_frame refusing a request whose keyframe lies beyond its offset
process_frameCheckingIrap(data, request) ==
    IF ~IsVideo(data)
    THEN {ErrFrame("No video stream found in container")}
    ELSE IF request.irap_offset > request.offset
         THEN {ErrFrame("irap_offset beyond offset")}
         ELSE {OkJpeg(Jpeg(data, request.offset)), ErrFrame("FrameNotFound")}

\* What process_frame(video_data, request, jpeg_quality) can return.
\* Decoder::new fails on bytes that hold no video stream; decode_frame and
\* the encoder then return a JPEG or fail.  irap_offset is not read.
process_frame(data, request) ==
    IF ~IsVideo(data)
    THEN {ErrFrame("No video stream found in container")}
    ELSE {OkJpeg(Jpeg(data, request.offset)), ErrFrame("FrameNotFound")}

\* What awaiting the spawn_blocking JoinHandle yields: the closure's value,
\* or a JoinError when the closure panicked.
JobResults(data, request) == process_frame(data, request) \cup {JoinErr}

AllJobResults == UNION {JobResults(BytesOf(p), q) : p \in Paths, q \in Requests}

---------------------------------------------------------------------------
(* handle_session / handle_message, one step per await *)

\* FrameHeader with the keyframe offset of the request in place of its offset
FrameHeaderWithIrap(request, jpeg) ==
    FrameMsg(request.index, request.irap_offset, AsU32(jpeg.len))

\* the frame header of an Ok result
FrameHeader(request, jpeg) == FrameMsg(request.index, request.offset, AsU32(jpeg.len))

\* FrameErrorOf reporting a join error by its own text, without the prefix
FrameErrorOfBareJoin(request, res) ==
    FrameErrorMsg(request.index, request.offset, res.error)

\* the FrameError of a failed request
FrameErrorOf(request, res) ==
    FrameErrorMsg(request.index, request.offset,
                  IF res.tag = "join" THEN "Task join error: " \o res.error ELSE res.error)

\* `?` on a send inside handle_message: the handler returns the error
Failed(l) == [NoLoc EXCEPT !.err = "transport"]

\* RequestAt iterating the array from its end
RequestAtReversed(frames, i) == frames[Len(frames) - i + 1]

\* `for request in frames`: the request of the i-th iteration
RequestAt(frames, i) == frames[i]

\* NextRequest with a loop that ends one request early
NextRequestStoppingEarly(l, i, evs) ==
    IF i < Len(l.frames)
    THEN /\ pc' = "job"
         /\ loc' = [l EXCEPT !.i = i, !.result = None]
         /\ log' = log \o evs \o <<SpawnEv(i, RequestAt(l.frames, i), Unwrap(l.clone))>>
    ELSE /\ pc' = "recv"
         /\ loc' = NoLoc
         /\ log' = log \o evs

\* the for loop over frames: the job of request i is spawned and awaited,
\* or the loop is over and handle_message returns Ok(())
NextRequest(l, i, evs) ==
    IF i <= Len(l.frames)
    THEN /\ pc' = "job"
         /\ loc' = [l EXCEPT !.i = i, !.result = None]
         /\ log' = log \o evs \o <<SpawnEv(i, RequestAt(l.frames, i), Unwrap(l.clone))>>
    ELSE /\ pc' = "recv"
         /\ loc' = NoLoc
         /\ log' = log \o evs

\* receiver.next().await yields an event carrying n frame requests
CanRecv(n) ==
    /\ pc = "recv"
    /\ Len(Received) < MaxMsgs
    /\ Len(Received) + FramesReceived + 1 + n <= MaxWork

\* the sends the transport has refused so far
IsRefused(e) == e.ev = "send" /\ ~e.ok
SendFailures == Len(SelectSeq(log, IsRefused))

\* the transport accepts the frame or refuses it
Transport(okv) == (~okv) => SendFailures < MaxSendFail

\* Message::Text with a SetVideo: from_json, then await video_exists
RecvSetVideo(p) ==
    LET e == [kind |-> "text", text |-> [json |-> TRUE, body |-> SetVideo(p)]]
    IN  /\ CanRecv(0)
        /\ pc' = "exists"
        /\ loc' = [NoLoc EXCEPT !.path = from_json(e.text).msg.path]
        /\ log' = Append(log, RecvEv(e))
        /\ UNCHANGED <<video_path, video_data, session, decoder, calls, encoder, elog, config, validations, extraction, client>>

\* NoVideoBail returning Ok(()) in place of the error
NoVideoBailSilent == "recv"

\* anyhow::bail!("No video set. ..."): handle_message returns Err, which
\* handle_session reports in an Error text frame
NoVideoBail == "send_error"

\* Snapshot taking the bytes of the first video the session fetched
SnapshotOfFirstVideo ==
    LET got == {j \in 1..Len(log) : log[j].ev = "fetch" /\ log[j].r = "ok"}
    IN  Some(BytesOf(log[CHOOSE j \in got : \A j2 \in got : j <= j2].path))

\* `video_data.as_ref().unwrap().clone()`, taken before the loop
Snapshot == video_data

\* Message::Text with a RequestFrames: bail without a video, else clone the
\* bytes and enter the loop
RecvRequestFrames(b) ==
    LET e == [kind |-> "text", text |-> [json |-> TRUE, body |-> RequestFrames(b)]]
        m == from_json(e.text).msg
    IN  /\ CanRecv(Len(b))
        /\ IF video_path = None
           THEN /\ pc' = NoVideoBail
                /\ loc' = [NoLoc EXCEPT !.err = "No video set. Send SetVideo first."]
                /\ log' = Append(log, RecvEv(e))
           ELSE NextRequest([NoLoc EXCEPT !.frames = m.frames, !.clone = Snapshot],
                            1, <<RecvEv(e)>>)
        /\ UNCHANGED <<video_path, video_data, session, decoder, calls, encoder, elog, config, validations, extraction, client>>

\* InvalidMessage without the prefix
InvalidMessageBare(e) == e

\* format!("Invalid message: {}", e)
InvalidMessage(e) == "Invalid message: " \o e

\* Message::Text that from_json rejects
RecvInvalid(text) ==
    LET e == [kind |-> "text", text |-> text]
    IN  /\ CanRecv(0)
        /\ ~from_json(text).ok
        /\ pc' = "send_invalid"
        /\ loc' = [NoLoc EXCEPT !.err = InvalidMessage(from_json(text).err)]
        /\ log' = Append(log, RecvEv(e))
        /\ UNCHANGED <<video_path, video_data, session, decoder, calls, encoder, elog, config, validations, extraction, client>>

\* Message::Ping
RecvPing(payload) ==
    /\ CanRecv(0)
    /\ pc' = "send_pong"
    /\ loc' = [NoLoc EXCEPT !.payload = payload]
    /\ log' = Append(log, RecvEv([kind |-> "ping", payload |-> payload]))
    /\ UNCHANGED <<video_path, video_data, session, decoder, calls, encoder, elog, config, validations, extraction, client>>

\* Message::Pong and Message::Binary: nothing is done
RecvIgnored(kind) ==
    /\ CanRecv(0)
    /\ pc' = "recv"
    /\ log' = Append(log, RecvEv([kind |-> kind]))
    /\ UNCHANGED <<video_path, video_data, loc, session, decoder, calls, encoder, elog, config, validations, extraction, client>>

\* Message::Close, a receive error, or the end of the stream: the loop ends
RecvStop(kind) ==
    /\ CanRecv(0)
    /\ pc' = "closed"
    /\ log' = Append(log, RecvEv([kind |-> kind]))
    /\ UNCHANGED <<video_path, video_data, loc, session, decoder, calls, encoder, elog, config, validations, extraction, client>>


\* storage::exists: head succeeded, reported NotFound, or failed otherwise
HeadResults == {"ok", "notfound", "unavailable"}

\* exists reporting every failure of head as an absent object
existsSwallowingErrors(head) ==
    IF head = "ok" THEN [ok |-> TRUE, val |-> TRUE] ELSE [ok |-> TRUE, val |-> FALSE]

exists(head) ==
    CASE head = "ok" -> [ok |-> TRUE, val |-> TRUE]
      [] head = "notfound" -> [ok |-> TRUE, val |-> FALSE]
      [] OTHER -> [ok |-> FALSE, err |-> "Failed to check object existence"]

GetResults == {"ok", "notfound", "unavailable"}

\* storage::fetch_all: get and bytes() succeeded, or one of them failed
fetch_all(p, get) ==
    IF get = "ok" THEN [ok |-> TRUE, val |-> BytesOf(p)]
    ELSE [ok |-> FALSE, err |-> "Failed to get object"]

\* AfterNotFound clearing the latched video
AfterNotFoundEvicting == [path |-> None, data |-> None]

\* the session state after the object was reported absent: no assignment
AfterNotFound == [path |-> video_path, data |-> video_data]

\* the session state after a fetch: both fields are assigned, no await between
Latched(p, d) == [path |-> Some(p), data |-> Some(d)]

\* fetcher::video_exists(...).await?
Exists(head) ==
    LET r == exists(head)
    IN  /\ pc = "exists"
        /\ log' = Append(log, StoreEv("exists", loc.path, head))
        /\ IF ~r.ok
           THEN /\ pc' = "send_error"
                /\ loc' = [NoLoc EXCEPT !.err = r.err]
                /\ UNCHANGED <<video_path, video_data, client>>
           ELSE IF ~r.val
           THEN /\ pc' = "send_videoset_false"
                /\ video_path' = AfterNotFound.path
                /\ video_data' = AfterNotFound.data
                /\ UNCHANGED loc
           ELSE /\ pc' = "fetch"
                /\ UNCHANGED <<video_path, video_data, loc, client>>
        /\ UNCHANGED <<session, decoder, calls, encoder, elog, config, validations, extraction, client>>

\* sender.send(VideoSet{path, ok: false}).await?; return Ok(())
SendVideoSetFalse(okv) ==
    /\ pc = "send_videoset_false"
    /\ Transport(okv)
    /\ log' = Append(log, SendEv(VideoSetMsg(loc.path, FALSE), okv, 0))
    /\ IF okv THEN pc' = "recv" /\ loc' = NoLoc
              ELSE pc' = "send_error" /\ loc' = Failed(loc)
    /\ UNCHANGED <<video_path, video_data, session, decoder, calls, encoder, elog, config, validations, extraction, client>>

\* fetcher::fetch_video(...).await?, then both fields are latched
Fetch(get) ==
    LET r == fetch_all(loc.path, get)
    IN  /\ pc = "fetch"
        /\ log' = Append(log, StoreEv("fetch", loc.path, get))
        /\ IF ~r.ok
           THEN /\ pc' = "send_error"
                /\ loc' = [NoLoc EXCEPT !.err = r.err]
                /\ UNCHANGED <<video_path, video_data, client>>
           ELSE /\ pc' = "send_videoset_ok"
                /\ video_path' = Latched(loc.path, r.val).path
                /\ video_data' = Latched(loc.path, r.val).data
                /\ UNCHANGED loc
        /\ UNCHANGED <<session, decoder, calls, encoder, elog, config, validations, extraction, client>>

\* sender.send(VideoSet{path, ok: true}).await?
SendVideoSetOk(okv) ==
    /\ pc = "send_videoset_ok"
    /\ Transport(okv)
    /\ log' = Append(log, SendEv(VideoSetMsg(loc.path, TRUE), okv, 0))
    /\ IF okv THEN pc' = "recv" /\ loc' = NoLoc
              ELSE pc' = "send_error" /\ loc' = Failed(loc)
    /\ UNCHANGED <<video_path, video_data, session, decoder, calls, encoder, elog, config, validations, extraction, client>>

\* where the loop goes once the worker's result is matched
ArmOf(res) == IF res.tag = "ok" THEN "send_header" ELSE "send_frame_error"

\* spawn_blocking(...).await completes with the worker's result
JobDone(res) ==
    /\ pc = "job"
    /\ res \in JobResults(Unwrap(loc.clone), RequestAt(loc.frames, loc.i))
    /\ pc' = ArmOf(res)
    /\ loc' = [loc EXCEPT !.result = Some(res)]
    /\ log' = Append(log, DoneEv(loc.i, res))
    /\ UNCHANGED <<video_path, video_data, session, decoder, calls, encoder, elog, config, validations, extraction, client>>

\* AfterHeader without the `?`: the binary is sent whatever the header did
AfterHeaderIgnoringFailure(okv) == "send_binary"

\* where the Ok arm goes after sending the Frame text: `?` leaves on failure
AfterHeader(okv) == IF okv THEN "send_binary" ELSE "send_error"

\* Ok(Ok(jpeg_data)): sender.send(Text(Frame{..})).await?
SendHeader(okv) ==
    /\ pc = "send_header"
    /\ Transport(okv)
    /\ log' = Append(log, SendEv(FrameHeader(RequestAt(loc.frames, loc.i), Unwrap(loc.result).jpeg),
                                 okv, loc.i))
    /\ pc' = AfterHeader(okv)
    /\ loc' = IF AfterHeader(okv) = "send_error" THEN Failed(loc) ELSE loc
    /\ UNCHANGED <<video_path, video_data, session, decoder, calls, encoder, elog, config, validations, extraction, client>>

\* sender.send(Binary(jpeg_data)).await?, then the next request
SendBinary(okv) ==
    /\ pc = "send_binary"
    /\ Transport(okv)
    /\ LET ev == SendEv(BinaryFrame(Unwrap(loc.result).jpeg), okv, loc.i)
       IN  IF okv THEN NextRequest(loc, loc.i + 1, <<ev>>)
           ELSE /\ pc' = "send_error"
                /\ loc' = Failed(loc)
                /\ log' = Append(log, ev)
    /\ UNCHANGED <<video_path, video_data, session, decoder, calls, encoder, elog, config, validations, extraction, client>>

\* AfterFrameError leaving the loop
AfterFrameErrorBreak(l) == Len(l.frames) + 1

\* the iteration that follows a FrameError that was sent: the loop goes on
AfterFrameError(l) == l.i + 1

\* Ok(Err(e)) and Err(join): sender.send(Text(FrameError{..})).await?, then
\* the next request
SendFrameError(okv) ==
    /\ pc = "send_frame_error"
    /\ Transport(okv)
    /\ LET ev == SendEv(FrameErrorOf(RequestAt(loc.frames, loc.i), Unwrap(loc.result)),
                         okv, loc.i)
       IN  IF okv THEN NextRequest(loc, AfterFrameError(loc), <<ev>>)
           ELSE /\ pc' = "send_error"
                /\ loc' = Failed(loc)
                /\ log' = Append(log, ev)
    /\ UNCHANGED <<video_path, video_data, session, decoder, calls, encoder, elog, config, validations, extraction, client>>

\* AfterErrorSend without the break: the loop goes on whatever the send did
AfterErrorSendContinuing(okv) == "recv"

\* `if sender.send(..).await.is_err() { break; }`
AfterErrorSend(okv) == IF okv THEN "recv" ELSE "closed"

\* handle_message returned Err(e): send Error{e}; break if that send fails
SendError(okv) ==
    /\ pc = "send_error"
    /\ Transport(okv)
    /\ log' = Append(log, SendEv(ErrorMsg(loc.err), okv, 0))
    /\ pc' = AfterErrorSend(okv)
    /\ loc' = NoLoc
    /\ UNCHANGED <<video_path, video_data, session, decoder, calls, encoder, elog, config, validations, extraction, client>>

\* from_json failed: send Error{"Invalid message: .."}; break if that fails
SendInvalid(okv) ==
    /\ pc = "send_invalid"
    /\ Transport(okv)
    /\ log' = Append(log, SendEv(ErrorMsg(loc.err), okv, 0))
    /\ pc' = IF okv THEN "recv" ELSE "closed"
    /\ loc' = NoLoc
    /\ UNCHANGED <<video_path, video_data, session, decoder, calls, encoder, elog, config, validations, extraction, client>>

\* PongOf with an empty payload
PongOfNothing(data) == PongFrame("")

\* Message::Pong(data)
PongOf(data) == PongFrame(data)

\* Message::Ping(data): send Pong(data); break if that fails
SendPong(okv) ==
    /\ pc = "send_pong"
    /\ Transport(okv)
    /\ log' = Append(log, SendEv(PongOf(loc.payload), okv, 0))
    /\ pc' = IF okv THEN "recv" ELSE "closed"
    /\ loc' = NoLoc
    /\ UNCHANGED <<video_path, video_data, session, decoder, calls, encoder, elog, config, validations, extraction, client>>

PingPayloads == {"p", "q"}

NoSession == [video_path |-> None, video_data |-> None, decoder |-> None, frame_queue |-> <<>>]

\* run_benchmark not started
NoClient == [pc |-> "off"]

\* Config::default()
DefaultConfig ==
    [storage_backend |-> "local", local_path |-> "./data", s3_bucket |-> "",
     s3_endpoint |-> None, jpeg_quality |-> 80]

\* extract_frame_offsets not yet called on a file
NotExtracting(file) ==
    [file |-> file, at |-> "start", next |-> 1, frames |-> <<>>,
     current_irap_offset |-> 0, result |-> None]

\* a file with no packets
EmptyFile == [video |-> TRUE, packets |-> <<>>]

\* everything but the configuration, as it is before anything ran
InitBut ==
    /\ extraction = NotExtracting(EmptyFile)
    /\ client = NoClient
    /\ pc = "recv"
    /\ video_path = None
    /\ video_data = None
    /\ loc = NoLoc
    /\ log = <<>>
    /\ session = NoSession
    /\ decoder = None
    /\ calls = <<>>
    /\ encoder = None
    /\ elog = [supplied |-> None, calls |-> 0, encodes |-> 0]
    /\ validations = <<>>

Init ==
    /\ InitBut
    /\ config = DefaultConfig

Next ==
    \/ \E p \in Paths : RecvSetVideo(p)
    \/ \E b \in Batches : RecvRequestFrames(b)
    \/ \E t \in Texts : RecvInvalid(t)
    \/ \E x \in PingPayloads : RecvPing(x)
    \/ \E k \in {"pong", "binary"} : RecvIgnored(k)
    \/ \E k \in {"close", "error", "end"} : RecvStop(k)
    \/ \E h \in HeadResults : Exists(h)
    \/ \E g \in GetResults : Fetch(g)
    \/ \E r \in AllJobResults : JobDone(r)
    \/ \E okv \in BOOLEAN : SendVideoSetFalse(okv)
    \/ \E okv \in BOOLEAN : SendVideoSetOk(okv)
    \/ \E okv \in BOOLEAN : SendHeader(okv)
    \/ \E okv \in BOOLEAN : SendBinary(okv)
    \/ \E okv \in BOOLEAN : SendFrameError(okv)
    \/ \E okv \in BOOLEAN : SendError(okv)
    \/ \E okv \in BOOLEAN : SendInvalid(okv)
    \/ \E okv \in BOOLEAN : SendPong(okv)

Spec == Init /\ [][Next]_vars

---------------------------------------------------------------------------
(* Reading the history *)

\* the frames of the accepted sends of a piece of history, in order
Frames(h) ==
    LET t == SelectSeq(h, IsSent)
    IN  [i \in 1..Len(t) |-> t[i].frame]

\* every frame the connection has emitted
Out == Frames(log)

TypesOf(fs) == [i \in 1..Len(fs) |-> fs[i].type]

IsSpawn(e) == e.ev = "spawn"
IsDone(e) == e.ev = "done"
IsResponseFrame(f) == f.type \in {"Frame", "Binary", "FrameError"}
IsResponse(e) == IsSent(e) /\ IsResponseFrame(e.frame)

\* positions of the inbound events in the history
RecvAt == {i \in 1..Len(log) : IsRecv(log[i])}

\* the last position of the handling of the event received at position r
EndOf(r) ==
    LET later == {j \in RecvAt : j > r}
    IN  IF later = {} THEN Len(log)
        ELSE (CHOOSE j \in later : \A j2 \in later : j <= j2) - 1

\* what handling the event received at r did, and whether it is over
Handling(r) == SubSeq(log, r + 1, EndOf(r))
Complete(r) == EndOf(r) < Len(log) \/ pc \in {"recv", "closed"}
Refused(r) == \E i \in r + 1..EndOf(r) : IsRefused(log[i])

IsText(r) == log[r].in.kind = "text" /\ from_json(log[r].in.text).ok
IsSetVideoAt(r) == IsText(r) /\ from_json(log[r].in.text).msg.type = "SetVideo"
IsBatchAt(r) == IsText(r) /\ from_json(log[r].in.text).msg.type = "RequestFrames"
BatchOf(r) == from_json(log[r].in.text).msg.frames
PathOf(r) == from_json(log[r].in.text).msg.path

\* the video latched before position i: that of the last successful fetch
VideoAt(i) ==
    LET got == {j \in 1..i - 1 : log[j].ev = "fetch" /\ log[j].r = "ok"}
    IN  IF got = {} THEN None
        ELSE Some(log[CHOOSE j \in got : \A j2 \in got : j2 <= j].path)

\* the batches received while a video was latched
LatchedBatches == {r \in RecvAt : IsBatchAt(r) /\ IsSome(VideoAt(r))}

\* the request whose job was spawned last before position p of a handling
SpawnedBefore(h, p) == SelectSeq(SubSeq(h, 1, p), IsSpawn)

---------------------------------------------------------------------------
(* The response-pair protocol *)

\* C1: every Frame{index, offset, size = N} text frame the connection emits
\* is directly followed, among the frames it emits, by a binary frame of
\* exactly N bytes.
C1_FrameThenItsBinary ==
    \A i \in 1..Len(Out) - 1 :
        Out[i].type = "Frame" =>
            /\ Out[i + 1].type = "Binary"
            /\ Out[i + 1].jpeg.len = Out[i].size

\* C2: every binary frame the connection emits directly follows a Frame text
\* frame; none follows a FrameError, VideoSet, Error or pong, none is first.
C2_BinaryFollowsFrameHeader ==
    \A i \in 1..Len(Out) :
        Out[i].type = "Binary" => i > 1 /\ Out[i - 1].type = "Frame"

\* a binary frame was emitted after a FrameError of the same connection
C2_Witness ==
    \E i \in 1..Len(Out) :
        /\ Out[i].type = "Binary"
        /\ \E j \in 1..i - 1 : Out[j].type = "FrameError"

\* C3: once the binary send of a pair is refused after its Frame header was
\* sent, the connection emits no further frame and handles no further event.
C3_ClosedAfterOrphanedHeader ==
    \A i \in 1..Len(log) :
        (IsRefused(log[i]) /\ log[i].frame.type = "Binary") =>
            \A j \in i + 1..Len(log) : ~IsSent(log[j]) /\ ~IsRecv(log[j])

\* the jobs of a handling, and the results they returned, in order
SpawnsOf(r) == SelectSeq(Handling(r), IsSpawn)
DonesOf(r) == SelectSeq(Handling(r), IsDone)

\* C4: the jobs of a batch are those of its requests in array order, every
\* response is emitted while the request it answers is the one whose job ran
\* last, and no response is emitted outside the handling of its own batch:
\* responses follow the order of the array, and those of an earlier batch
\* all precede those of a later one.
C4_ResponsesInRequestOrder ==
    \A r \in RecvAt :
        LET h == Handling(r)
        IN  IF ~IsBatchAt(r)
            THEN \A p \in 1..Len(h) : ~IsSpawn(h[p]) /\ ~IsResponse(h[p])
            ELSE /\ Len(SpawnsOf(r)) <= Len(BatchOf(r))
                 /\ \A n \in 1..Len(SpawnsOf(r)) :
                        /\ SpawnsOf(r)[n].k = n
                        /\ SpawnsOf(r)[n].req = BatchOf(r)[n]
                 /\ \A p \in 1..Len(h) :
                        IsResponse(h[p]) =>
                            /\ SpawnedBefore(h, p) # <<>>
                            /\ h[p].k = Len(SpawnedBefore(h, p))
                            /\ \A q \in 1..p - 1 :
                                   IsResponse(h[q]) => h[q].k <= h[p].k

\* two batches of one connection were both answered
C4_Witness ==
    \E r1, r2 \in LatchedBatches :
        /\ r1 < r2
        /\ \E p \in r1 + 1..EndOf(r1) : IsResponse(log[p]) /\ log[p].k = 1
        /\ \E p \in r2 + 1..EndOf(r2) : IsResponse(log[p])

\* the frame types that answer a request whose job returned res
ResponseTypes(res) == IF res.tag = "ok" THEN <<"Frame", "Binary">> ELSE <<"FrameError">>

RECURSIVE ExpectedTypes(_)
ExpectedTypes(dones) ==
    IF dones = <<>> THEN <<>>
    ELSE ResponseTypes(Head(dones).result) \o ExpectedTypes(Tail(dones))

IsResponseHead(f) == f.type \in {"Frame", "FrameError"}

\* C5: a batch received with a video latched and handled to its end with no
\* send refused gets one job and one response per request: the pair (Frame,
\* binary) for an Ok result, one FrameError and no binary for an Err or a
\* join error; nothing else is emitted for it.
C5_OneResponsePerRequest ==
    \A r \in LatchedBatches :
        (Complete(r) /\ ~Refused(r)) =>
            /\ Len(DonesOf(r)) = Len(BatchOf(r))
            /\ TypesOf(Frames(Handling(r))) = ExpectedTypes(DonesOf(r))
            /\ Len(SelectSeq(Frames(Handling(r)), IsResponseHead)) = Len(BatchOf(r))

\* a batch of at least two requests, one decoded and one failed, was
\* answered to its end
C5_Witness ==
    \E r \in LatchedBatches :
        /\ Complete(r) /\ ~Refused(r)
        /\ Len(BatchOf(r)) >= 2
        /\ \E a, b \in 1..Len(DonesOf(r)) :
               DonesOf(r)[a].result.tag = "ok" /\ DonesOf(r)[b].result.tag # "ok"

\* the request a response frame answers: that of the job spawned last
AnsweredBy(h, p) == SpawnedBefore(h, p)[Len(SpawnedBefore(h, p))].req

\* C6: every Frame and every FrameError carries the index and the offset of
\* the request it answers.
C6_IndexAndOffsetEchoed ==
    \A r \in RecvAt :
        LET h == Handling(r)
        IN  \A p \in 1..Len(h) :
                (IsSent(h[p]) /\ IsResponseHead(h[p].frame)) =>
                    /\ SpawnedBefore(h, p) # <<>>
                    /\ h[p].frame.index = AnsweredBy(h, p).index
                    /\ h[p].frame.offset = AnsweredBy(h, p).offset
                    /\ AnsweredBy(h, p) = BatchOf(r)[h[p].k]

\* a batch whose indices are out of order, or repeat, was answered
C6_Witness ==
    \E r \in LatchedBatches :
        LET fs == Frames(Handling(r))
            heads == SelectSeq(fs, IsResponseHead)
        IN  /\ Len(heads) >= 2
            /\ heads[1].index >= heads[2].index

IndicesOf(fs) == [i \in 1..Len(fs) |-> fs[i].index]
TagsOf(dones) == [i \in 1..Len(dones) |-> dones[i].result.tag]

\* C7: a request whose job fails is answered with a FrameError and the loop
\* goes on: the job of the next request of the batch is spawned right after
\* the FrameError is sent.  So a batch with indices 0, 1, 2 whose middle job
\* fails, handled with no send refused, emits exactly Frame 0, binary,
\* FrameError 1, Frame 2, binary.
C7_FailureDoesNotStopBatch ==
    \A r \in LatchedBatches :
        LET h == Handling(r)
            fs == Frames(h)
        IN  /\ \A p \in 1..Len(h) :
                   (IsSent(h[p]) /\ h[p].frame.type = "FrameError"
                        /\ h[p].k < Len(BatchOf(r))) =>
                       /\ p < Len(h)
                       /\ IsSpawn(h[p + 1])
                       /\ h[p + 1].k = h[p].k + 1
            /\ (/\ Complete(r) /\ ~Refused(r)
                /\ IndicesOf(BatchOf(r)) = <<0, 1, 2>>
                /\ TagsOf(DonesOf(r)) = <<"ok", "err", "ok">>) =>
                   /\ TypesOf(fs) = <<"Frame", "Binary", "FrameError", "Frame", "Binary">>
                   /\ fs[1].index = 0 /\ fs[3].index = 1 /\ fs[4].index = 2
                   /\ fs[2].jpeg.offset = BatchOf(r)[1].offset
                   /\ fs[5].jpeg.offset = BatchOf(r)[3].offset

\* the batch 0, 1, 2 with a failing middle request was answered to its end
C7_Witness ==
    \E r \in LatchedBatches :
        /\ Complete(r) /\ ~Refused(r)
        /\ IndicesOf(BatchOf(r)) = <<0, 1, 2>>
        /\ TagsOf(DonesOf(r)) = <<"ok", "err", "ok">>
        /\ Len(Frames(Handling(r))) = 5

---------------------------------------------------------------------------
(* The session state *)

\* Decoder::new(bytes): a decoder of these bytes, or an error
Decoder_new(data) == IF IsVideo(data) THEN Some([of |-> data]) ELSE None

\* The decoder the session has for its requests.  handle_session keeps none
\* between requests: process_frame builds one from the latched bytes for
\* every job, so the session has a decoder when that construction succeeds.
SessionDecoder == IF IsSome(video_data) THEN Decoder_new(Unwrap(video_data)) ELSE None

\* C8: video_path, the video bytes and the decoder are all set or all unset,
\* and when set the bytes and the decoder are those of the path.
C8_PathBytesDecoderTogether ==
    /\ IsSome(video_path) <=> IsSome(video_data)
    /\ IsSome(video_path) <=> IsSome(SessionDecoder)
    /\ IsSome(video_path) =>
           /\ Unwrap(video_data) = BytesOf(Unwrap(video_path))
           /\ Unwrap(SessionDecoder).of = Unwrap(video_data)

\* the handlings of a SetVideo whose object the store reported absent
NotFoundSetVideos ==
    {r \in RecvAt : /\ IsSetVideoAt(r)
                    /\ EndOf(r) > r
                    /\ log[r + 1].ev = "exists" /\ log[r + 1].r = "notfound"}

\* C9: a SetVideo whose object is absent leaves the session as it was (no
\* video if there was none, the video latched before if there was one), and
\* handled with no send refused it emits one VideoSet{path, ok: false} and
\* nothing else.
C9_AbsentVideoChangesNothing ==
    /\ video_path = VideoAt(Len(log) + 1)
    /\ IsSome(video_path) => video_data = Some(BytesOf(Unwrap(video_path)))
    /\ \A r \in NotFoundSetVideos :
           /\ VideoAt(EndOf(r) + 1) = VideoAt(r)
           /\ (Complete(r) /\ ~Refused(r)) =>
                  Frames(Handling(r)) = <<VideoSetMsg(PathOf(r), FALSE)>>

\* after a video was latched a SetVideo of an absent object was answered
\* with ok: false, and a later request was served from the video latched
\* before
C9_Witness ==
    \E r \in NotFoundSetVideos :
        /\ IsSome(VideoAt(r))
        /\ Frames(Handling(r)) = <<VideoSetMsg(PathOf(r), FALSE)>>
        /\ PathOf(r) # Unwrap(VideoAt(r))
        /\ \E p \in EndOf(r) + 1..Len(log) :
               /\ IsSent(log[p]) /\ log[p].frame.type = "Binary"
               /\ log[p].frame.jpeg.obj = Unwrap(VideoAt(r))

\* the handlings of a SetVideo whose object was fetched and is no video
UndecodableSetVideos ==
    {r \in RecvAt : /\ IsSetVideoAt(r)
                    /\ ~IsVideo(BytesOf(PathOf(r)))
                    /\ \E p \in r + 1..EndOf(r) : log[p].ev = "fetch" /\ log[p].r = "ok"}

\* C10: a SetVideo whose object is fetched but initialises no Decoder emits
\* an Error text frame and no VideoSet{ok: true}, and latches nothing.
C10_DecoderInitFailureNotLatched ==
    \A r \in UndecodableSetVideos :
        /\ VideoAt(EndOf(r) + 1) = VideoAt(r)
        /\ \A i \in 1..Len(Frames(Handling(r))) :
               Frames(Handling(r))[i].type # "VideoSet"
        /\ (Complete(r) /\ ~Refused(r)) =>
               TypesOf(Frames(Handling(r))) = <<"Error">>

---------------------------------------------------------------------------
(* Protocol, transport, worker and storage errors *)

\* the sends a piece of history attempted, accepted or refused
IsSend(e) == e.ev = "send"
Sends(h) == SelectSeq(h, IsSend)

\* the handling at r, if it is the last one, left the loop receiving
RunningAfter(r) == (EndOf(r) = Len(log)) => pc = "recv"

\* the batches received while no video was latched
IdleBatches == {r \in RecvAt : IsBatchAt(r) /\ VideoAt(r) = None}

\* C11: a RequestFrames received with no video latched spawns no job and
\* attempts no send but that of Error{"No video set. ..."}; the session
\* stays without a video; handled with no send refused it emits exactly that
\* one Error frame and the loop goes on receiving.
C11_IdleRequestFramesGetsError ==
    \A r \in IdleBatches :
        LET h == Handling(r)
        IN  /\ \A p \in 1..Len(h) : ~IsSpawn(h[p]) /\ ~IsDone(h[p])
            /\ \A p \in 1..Len(h) :
                   IsSend(h[p]) => h[p].frame = ErrorMsg("No video set. Send SetVideo first.")
            /\ VideoAt(EndOf(r) + 1) = None
            /\ (EndOf(r) = Len(log)) => video_path = None /\ video_data = None
            /\ (Complete(r) /\ ~Refused(r)) =>
                   /\ Frames(h) = <<ErrorMsg("No video set. Send SetVideo first.")>>
                   /\ RunningAfter(r)

\* an empty and a non-empty RequestFrames were both answered with no video
\* latched, and the connection is receiving
C11_Witness ==
    /\ pc = "recv"
    /\ \E r1, r2 \in IdleBatches :
           /\ r1 < r2
           /\ BatchOf(r1) = <<>> /\ Len(BatchOf(r2)) >= 1
           /\ Len(Frames(Handling(r1))) = 1 /\ Len(Frames(Handling(r2))) = 1

\* the text frames from_json rejected
InvalidTexts == {r \in RecvAt : log[r].in.kind = "text" /\ ~from_json(log[r].in.text).ok}

\* the messages "Invalid message: " followed by a parse error
InvalidMessages == {"Invalid message: " \o from_json(t).err : t \in {x \in Texts : ~from_json(x).ok}}

\* C12: a text frame that is no JSON, or whose type is unknown, attempts no
\* send but that of an Error whose message starts with "Invalid message: ",
\* and leaves the latched video as it was; handled with no send refused it
\* emits exactly one such Error and the loop goes on receiving.
C12_InvalidTextGetsError ==
    \A r \in InvalidTexts :
        LET h == Handling(r)
        IN  /\ \A p \in 1..Len(h) :
                   /\ IsSend(h[p])
                   /\ h[p].frame.type = "Error"
                   /\ h[p].frame.message \in InvalidMessages
            /\ Len(h) <= 1
            /\ VideoAt(EndOf(r) + 1) = VideoAt(r)
            /\ (EndOf(r) = Len(log)) => video_path = VideoAt(r)
            /\ (Complete(r) /\ ~Refused(r)) => Len(Frames(h)) = 1 /\ RunningAfter(r)

\* with a video latched, an invalid text was answered with an Error, and a
\* RequestFrames received after it was served a frame of that video
C12_Witness ==
    \E r \in InvalidTexts, b \in LatchedBatches :
        /\ IsSome(VideoAt(r))
        /\ r < b
        /\ Len(Frames(Handling(r))) = 1
        /\ \E p \in b + 1..EndOf(b) :
               /\ IsSent(log[p]) /\ log[p].frame.type = "Binary"
               /\ log[p].frame.jpeg.obj = Unwrap(VideoAt(r))

\* a receive that failed or ended, or a Close from the client
IsStopRecv(e) == IsRecv(e) /\ e.in.kind \in {"close", "error", "end"}

\* C13: after a failed receive, a Close, or a refused send, the connection
\* attempts no send and receives nothing more.
C13_TransportFailureTerminates ==
    \A i \in 1..Len(log) :
        (IsStopRecv(log[i]) \/ IsRefused(log[i])) =>
            \A j \in i + 1..Len(log) : ~IsSend(log[j]) /\ ~IsRecv(log[j])

\* the positions at which a job ended with a join error
JoinFailures == {i \in 1..Len(log) : IsDone(log[i]) /\ log[i].result.tag = "join"}

\* the request whose job ended at position i
RequestOfDone(i) ==
    LET sp == SelectSeq(SubSeq(log, 1, i), IsSpawn)
    IN  sp[Len(sp)].req

\* C14 as stated: the send that follows a join error is that of
\* FrameError{index, offset, error: "join failure"}.
C14_JoinFailureText ==
    \A i \in JoinFailures :
        i < Len(log) =>
            log[i + 1].frame =
                FrameErrorMsg(RequestOfDone(i).index, RequestOfDone(i).offset, "join failure")

\* C14 amended: the send that follows a join error is that of
\* FrameError{index, offset, error: "Task join error: " + the join error};
\* once it is accepted the job of the next request of the batch is spawned,
\* or after the last request the loop goes on receiving.
C14_JoinFailureReported ==
    \A i \in JoinFailures :
        i < Len(log) =>
            /\ IsSend(log[i + 1])
            /\ log[i + 1].frame =
                   FrameErrorMsg(RequestOfDone(i).index, RequestOfDone(i).offset,
                                 "Task join error: " \o log[i].result.error)
            /\ (log[i + 1].ok /\ i + 1 < Len(log)) =>
                   \/ IsSpawn(log[i + 2]) /\ log[i + 2].k = log[i].k + 1
                   \/ IsRecv(log[i + 2])
            /\ (log[i + 1].ok /\ i + 1 = Len(log)) => pc = "recv"

\* a job that was not the last of its batch ended with a join error, its
\* FrameError was sent, and the next request was answered with a frame
C14_Witness ==
    \E i \in JoinFailures :
        /\ i + 4 <= Len(log)
        /\ IsSent(log[i + 1]) /\ log[i + 1].frame.type = "FrameError"
        /\ IsSpawn(log[i + 2])
        /\ IsSent(log[i + 4]) /\ log[i + 4].frame.type = "Frame"

\* the handlings of a SetVideo in which exists or fetch_all failed with
\* anything but an absent object at the existence check
StorageErrorSetVideos ==
    {r \in RecvAt :
        /\ IsSetVideoAt(r)
        /\ \E p \in r + 1..EndOf(r) :
               \/ log[p].ev = "exists" /\ log[p].r = "unavailable"
               \/ log[p].ev = "fetch" /\ log[p].r # "ok"}

\* C15: a SetVideo during which exists or fetch_all fails (the object gone
\* between the check and the fetch included) attempts no send but that of an
\* Error, so no VideoSet; the latched video stays as it was; handled with no
\* send refused it emits exactly one Error and the loop goes on receiving.
C15_StorageErrorGetsError ==
    \A r \in StorageErrorSetVideos :
        LET h == Handling(r)
        IN  /\ \A p \in 1..Len(h) : IsSend(h[p]) => h[p].frame.type = "Error"
            /\ VideoAt(EndOf(r) + 1) = VideoAt(r)
            /\ (EndOf(r) = Len(log)) => video_path = VideoAt(r)
            /\ (Complete(r) /\ ~Refused(r)) =>
                   /\ TypesOf(Frames(h)) = <<"Error">>
                   /\ RunningAfter(r)

\* with a video latched, a SetVideo whose object vanished between the check
\* and the fetch was answered with an Error, and a later RequestFrames was
\* served a frame of the video latched before
C15_Witness ==
    \E r \in StorageErrorSetVideos, b \in LatchedBatches :
        /\ IsSome(VideoAt(r))
        /\ r < b
        /\ \E p \in r + 1..EndOf(r) : log[p].ev = "fetch" /\ log[p].r = "notfound"
        /\ Len(Frames(Handling(r))) = 1
        /\ \E p \in b + 1..EndOf(b) :
               /\ IsSent(log[p]) /\ log[p].frame.type = "Binary"
               /\ log[p].frame.jpeg.obj = Unwrap(VideoAt(r))

---------------------------------------------------------------------------
(* pipeline::decoder: containers, the codec context, DecodedFrame *)

\* Decoder::new and decode invocations made in one run
MaxCalls == 3
\* frame indices in one decode_frames
MaxIndices == 2
\* frames the codec holds back before it outputs the first (reordering,
\* frame threads)
MaxDelay == 1

\* demuxed packets: the stream they belong to, the byte position the demuxer
\* reports, the picture they code, and whether the codec accepts them
VideoPacket(pos, pic) == [stream |-> 0, pos |-> pos, pic |-> pic, ok |-> TRUE]
BadPacket(pos, pic) == [stream |-> 0, pos |-> pos, pic |-> pic, ok |-> FALSE]
AudioPacket(pos) == [stream |-> 1, pos |-> pos, pic |-> "", ok |-> TRUE]

\* byte buffers handed to the decoder: a container with its streams, codec
\* parameters and packets in file order, or bytes that are no container
Container(name, streams, w, h, pkts) ==
    [name |-> name, container |-> TRUE, streams |-> streams,
     width |-> w, height |-> h, packets |-> pkts]

GopA ==
    Container("A", <<"video", "audio">>, 4, 2,
              <<VideoPacket(10, "a1"), AudioPacket(15), VideoPacket(20, "a2"),
                VideoPacket(30, "a3")>>)
GopB == Container("B", <<"video">>, 4, 2, <<VideoPacket(10, "b1"), VideoPacket(20, "b2")>>)
GopCorrupt ==
    Container("C", <<"video">>, 4, 2,
              <<VideoPacket(10, "c1"), BadPacket(20, "c2"), VideoPacket(30, "c3")>>)
GopOdd == Container("O", <<"video">>, 3, 4, <<VideoPacket(10, "o1")>>)
\* a container whose second video packet has no known position
GopUnknown ==
    Container("U", <<"video">>, 4, 2,
              <<VideoPacket(10, "u1"), VideoPacket(-1, "u2"), VideoPacket(30, "u3")>>)
\* a container whose only stream, stream 0, is audio: its packets are no HEVC
AudioOnly == Container("S", <<"audio">>, 0, 0, <<BadPacket(5, "")>>)
NotAContainer ==
    [name |-> "J", container |-> FALSE, streams |-> <<>>, width |-> 0, height |-> 0,
     packets |-> <<>>]

Buffers == {GopA, GopB, GopCorrupt, GopOdd, GopUnknown, AudioOnly, NotAContainer}

Ok(v) == [ok |-> TRUE, val |-> v]
Err(e) == [ok |-> FALSE, err |-> e]

\* find_video_stream: the index (from 0) of the first video stream
find_video_stream(buf) ==
    LET vs == {i \in 1..Len(buf.streams) : buf.streams[i] = "video"}
    IN  IF vs = {} THEN Err("NoVideoStream")
        ELSE Ok((CHOOSE i \in vs : \A j \in vs : i <= j) - 1)

\* what the codec library can answer while a decoder is set up
CodecEnvs == {"ok", "DecoderNotFound", "ParametersToContext", "DecoderOpen", "ScalerInit"}

\* the DecoderError of an answer: avcodec_parameters_to_context failing is
\* reported as DecoderOpen, like the failure of opening the decoder
DecoderErrorOf(env) == IF env = "ParametersToContext" THEN "DecoderOpen" ELSE env

\* Decoder::new(initial_data): probe the container, find the video stream,
\* open the HEVC decoder with the stream's parameters, build the scaler for
\* its width and height.  No check is made on the dimensions.
DecoderNew(buf, delay, env) ==
    IF ~buf.container THEN Err("Avio")
    ELSE IF ~find_video_stream(buf).ok THEN Err("NoVideoStream")
    ELSE IF env # "ok" THEN Err(DecoderErrorOf(env))
    ELSE Ok([video_stream_index |-> find_video_stream(buf).val,
             width |-> buf.width, height |-> buf.height,
             delay |-> delay, pending |-> <<>>, draining |-> FALSE])

\* avcodec_flush_buffers: buffered pictures and the EOF state are dropped
flush(d) == [d EXCEPT !.pending = <<>>, !.draining = FALSE]

\* avcodec_send_packet: refused once EOF was sent, and for a corrupt packet
send_packet(d, pkt) ==
    IF d.draining \/ ~pkt.ok THEN [ok |-> FALSE, dec |-> d]
    ELSE [ok |-> TRUE, dec |-> [d EXCEPT !.pending = Append(@, pkt.pic)]]

\* avcodec_send_packet(NULL)
send_eof(d) == [d EXCEPT !.draining = TRUE]

\* avcodec_receive_frame succeeds: a picture is ready for output
CanReceive(d) ==
    IF d.draining THEN d.pending # <<>> ELSE Len(d.pending) > d.delay

\* DecodedFrame::y_plane_size, chroma_plane_size
y_plane_size(f) == f.width * f.height
chroma_plane_size(f) == y_plane_size(f) \div 4

\* convert_frame: height rows of width bytes, then twice height/2 rows of
\* width/2 bytes
convert_frame(d, pic) ==
    [pic |-> pic, width |-> d.width, height |-> d.height,
     len |-> d.height * d.width + 2 * ((d.height \div 2) * (d.width \div 2)),
     linesize |-> <<d.width, d.width \div 2, d.width \div 2>>]

\* flush doing nothing
flushNothing(d) == d

\* `self.decoder.flush()` at the entry of a decode invocation
flushAtEntry(d) == flush(d)

\* `while self.decoder.receive_frame(&mut frame).is_ok()`: convert and push
\* each picture; done once current_index > max_index (current_index is the
\* number of frames pushed)
RECURSIVE ReceiveFrames(_, _, _)
ReceiveFrames(d, frames, max_index) ==
    IF ~CanReceive(d) THEN [dec |-> d, frames |-> frames, done |-> FALSE]
    ELSE LET d2 == [d EXCEPT !.pending = Tail(@)]
             fs == Append(frames, convert_frame(d, Head(d.pending)))
         IN  IF Len(fs) > max_index
             THEN [dec |-> d2, frames |-> fs, done |-> TRUE]
             ELSE ReceiveFrames(d2, fs, max_index)

\* `while av_read_frame(..) >= 0`: skip the packets of other streams, send
\* the packet, receive; at the end of the packets send EOF and receive
RECURSIVE ReadPackets(_, _, _, _)
ReadPackets(d, pkts, frames, max_index) ==
    IF pkts = <<>>
    THEN LET r == ReceiveFrames(send_eof(d), frames, max_index)
         IN  [res |-> Ok(r.frames), dec |-> r.dec]
    ELSE IF Head(pkts).stream # d.video_stream_index
    THEN ReadPackets(d, Tail(pkts), frames, max_index)
    ELSE LET sent == send_packet(d, Head(pkts))
         IN  IF ~sent.ok THEN [res |-> Err("SendPacket"), dec |-> sent.dec]
             ELSE LET r == ReceiveFrames(sent.dec, frames, max_index)
                  IN  IF r.done THEN [res |-> Ok(r.frames), dec |-> r.dec]
                      ELSE ReadPackets(r.dec, Tail(pkts), r.frames, max_index)

\* Decoder::decode_up_to: the result and the decoder as it is left
decode_up_to(d, gop_data, max_index) ==
    LET d1 == flushAtEntry(d)
    IN  IF ~gop_data.container THEN [res |-> Err("Avio"), dec |-> d1]
        ELSE ReadPackets(d1, gop_data.packets, <<>>, max_index)

SeqMax(s) == CHOOSE m \in {s[i] : i \in 1..Len(s)} : \A i \in 1..Len(s) : s[i] <= m

\* DecoderError::FrameNotFound { index, total }
FrameNotFound(index, total) ==
    [ok |-> FALSE, err |-> "FrameNotFound", index |-> index, total |-> total]

\* the frame decode_frames returns for the i-th index, taken by position
FrameForPosition(all_frames, frame_indices, i) ==
    IF i <= Len(all_frames) THEN Ok(all_frames[i])
    ELSE FrameNotFound(frame_indices[i], Len(all_frames))

\* `all_frames.get(idx as usize)` for the i-th requested index
FrameFor(all_frames, frame_indices, i) ==
    IF frame_indices[i] + 1 <= Len(all_frames) THEN Ok(all_frames[frame_indices[i] + 1])
    ELSE FrameNotFound(frame_indices[i], Len(all_frames))

\* FirstFailure taking the last index that is not found
LastFailure(got) ==
    CHOOSE i \in 1..Len(got) : ~got[i].ok /\ \A j \in i + 1..Len(got) : got[j].ok

\* `?` in the loop over frame_indices: the first index that is not found
\* ends the loop
FirstFailure(got) ==
    CHOOSE i \in 1..Len(got) : ~got[i].ok /\ \A j \in 1..i - 1 : got[j].ok

\* Decoder::decode_frames
decode_frames(d, gop_data, frame_indices) ==
    IF frame_indices = <<>> THEN [res |-> Ok(<<>>), dec |-> d]
    ELSE LET up == decode_up_to(d, gop_data, SeqMax(frame_indices))
         IN  IF ~up.res.ok THEN up
             ELSE LET got == [i \in 1..Len(frame_indices) |->
                                 FrameFor(up.res.val, frame_indices, i)]
                  IN  IF \E i \in 1..Len(got) : ~got[i].ok
                      THEN [res |-> got[FirstFailure(got)], dec |-> up.dec]
                      ELSE [res |-> Ok([i \in 1..Len(got) |-> got[i].val]), dec |-> up.dec]

\* the width of target_offset and of a position cast to unsigned, in bits
\* (64 in the program; the all-ones value is what matters, at any width)
PositionBits == 8

\* the largest target_offset: what -1 becomes when cast to unsigned
U64Max == 2 ^ PositionBits - 1

\* `position as u64`
AsU64(position) == position % (2 ^ PositionBits)

\* PositionIs comparing after a cast of the position to unsigned
PositionIsByCast(position, target_offset) == AsU64(position) = target_offset

\* `position == target_offset`, which an unknown position (-1) never
\* satisfies
PositionIs(position, target_offset) == position >= 0 /\ position = target_offset

\* the rule by which a drained frame is taken for the target: the packet just
\* sent is the target, or the video packet sent before it is at the target
\* offset (a codec that outputs a frame only once it has the next packet)
Corresponds(is_target, last_sent_pos, target_offset) ==
    is_target \/ (IsSome(last_sent_pos) /\ PositionIs(Unwrap(last_sent_pos), target_offset))

\* drain: while the decoder yields frames, convert; the first frame that
\* corresponds to the target is captured
RECURSIVE DrainForTarget(_, _, _, _)
DrainForTarget(d, is_target, last_sent_pos, target_offset) ==
    IF ~CanReceive(d) THEN [dec |-> d, captured |-> None]
    ELSE LET d2 == [d EXCEPT !.pending = Tail(@)]
         IN  IF Corresponds(is_target, last_sent_pos, target_offset)
             THEN [dec |-> d2, captured |-> Some(convert_frame(d, Head(d.pending)))]
             ELSE DrainForTarget(d2, is_target, last_sent_pos, target_offset)

\* steps 3 to 6 of the per-request algorithm
RECURSIVE SeekTarget(_, _, _, _)
SeekTarget(d, pkts, last_sent_pos, target_offset) ==
    IF pkts = <<>>
    THEN LET r == DrainForTarget(send_eof(d), FALSE, last_sent_pos, target_offset)
         IN  [res |-> IF IsSome(r.captured) THEN Ok(Unwrap(r.captured))
                      ELSE Err("FrameNotFound"),
              dec |-> r.dec]
    ELSE IF Head(pkts).stream # d.video_stream_index
    THEN SeekTarget(d, Tail(pkts), last_sent_pos, target_offset)
    ELSE LET sent == send_packet(d, Head(pkts))
         IN  IF ~sent.ok THEN [res |-> Err("SendPacket"), dec |-> sent.dec]
             ELSE LET r == DrainForTarget(sent.dec, PositionIs(Head(pkts).pos, target_offset),
                                          last_sent_pos, target_offset)
                  IN  IF IsSome(r.captured)
                      THEN [res |-> Ok(Unwrap(r.captured)), dec |-> r.dec]
                      ELSE SeekTarget(r.dec, Tail(pkts), Some(Head(pkts).pos), target_offset)

\* Decoder::decode_frame(buffer, target_offset): flush, open the buffer, walk
\* its packets from the start
decode_frame(d, buffer, target_offset) ==
    LET d1 == flushAtEntry(d)
    IN  IF ~buffer.container THEN [res |-> Err("Avio"), dec |-> d1]
        ELSE SeekTarget(d1, buffer.packets, None, target_offset)

---------------------------------------------------------------------------
(* A Decoder in use: construction, then decode invocations *)

\* target offsets: the positions of video packets, that of an audio packet,
\* the largest value
Targets == {10, 15, 20, 30, U64Max}

\* frame indices of one decode_frames call
IndexLists == SeqsUpTo(0..2, MaxIndices)

\* the format context of a call when the call returns: never opened, closed
\* by avformat_close_input, or still open
\* Decoder::new: open_format_context, then `?` on find_video_stream, on
\* decoder::find and on .video(); avformat_close_input where
\* avcodec_parameters_to_context fails and before the scaler is built
NewFormatContext(buf, env) ==
    IF ~buf.container THEN "unopened"
    ELSE IF ~find_video_stream(buf).ok THEN "open"
    ELSE IF env \in {"DecoderNotFound", "DecoderOpen"} THEN "open"
    ELSE "closed"

\* decode_up_to: `?` on send_packet leaves without avformat_close_input; the
\* return inside the loop and the return after the EOF drain close
UpToFormatContext(gop_data, res) ==
    IF ~gop_data.container THEN "unopened"
    ELSE IF ~res.ok /\ res.err = "SendPacket" THEN "open"
    ELSE "closed"

\* decode_frames: no decode_up_to for an empty list of indices
FramesFormatContext(d, gop_data, frame_indices) ==
    IF frame_indices = <<>> THEN "unopened"
    ELSE UpToFormatContext(gop_data, decode_up_to(d, gop_data, SeqMax(frame_indices)).res)

\* decode_frame: step 5 closes the context when the frame is captured; what
\* the other returns do with it is not stated
FrameFormatContext(buffer, res) ==
    IF ~buffer.container THEN "unopened"
    ELSE IF res.ok THEN "closed"
    ELSE "unstated"

NewCall(buf, r, ctx) ==
    [op |-> "new", buf |-> buf, arg |-> <<>>, result |-> r, fmt_ctx |-> ctx]
FramesCall(buf, indices, r, ctx) ==
    [op |-> "decode_frames", buf |-> buf, arg |-> indices, result |-> r, fmt_ctx |-> ctx]
FrameCall(buf, target, r, ctx) ==
    [op |-> "decode_frame", buf |-> buf, arg |-> target, result |-> r, fmt_ctx |-> ctx]

\* Decoder::new(initial_data)
NewDecoder(buf, delay, env) ==
    LET r == DecoderNew(buf, delay, env)
    IN  /\ decoder = None
        /\ Len(calls) < MaxCalls
        /\ decoder' = IF r.ok THEN Some(r.val) ELSE None
        /\ calls' = Append(calls, NewCall(buf, IF r.ok THEN Ok("Decoder") ELSE r,
                                             NewFormatContext(buf, env)))
        /\ UNCHANGED <<pc, video_path, video_data, loc, log, session, encoder, elog, config, validations, extraction, client>>

\* decoder.decode_frames(gop_data, frame_indices)
DecodeFrames(buf, indices) ==
    /\ IsSome(decoder)
    /\ Len(calls) < MaxCalls
    /\ LET r == decode_frames(Unwrap(decoder), buf, indices)
       IN  /\ decoder' = Some(r.dec)
           /\ calls' = Append(calls, FramesCall(buf, indices, r.res,
                                               FramesFormatContext(Unwrap(decoder), buf, indices)))
    /\ UNCHANGED <<pc, video_path, video_data, loc, log, session, encoder, elog, config, validations, extraction, client>>

\* decoder.decode_frame(buffer, target_offset)
DecodeFrame(buf, target) ==
    /\ IsSome(decoder)
    /\ Len(calls) < MaxCalls
    /\ LET r == decode_frame(Unwrap(decoder), buf, target)
       IN  /\ decoder' = Some(r.dec)
           /\ calls' = Append(calls, FrameCall(buf, target, r.res,
                                              FrameFormatContext(buf, r.res)))
    /\ UNCHANGED <<pc, video_path, video_data, loc, log, session, encoder, elog, config, validations, extraction, client>>

NextDecoder ==
    \/ \E buf \in Buffers, delay \in 0..MaxDelay, env \in CodecEnvs : NewDecoder(buf, delay, env)
    \/ \E buf \in Buffers, indices \in IndexLists : DecodeFrames(buf, indices)
    \/ \E buf \in Buffers, target \in Targets : DecodeFrame(buf, target)

SpecDecoder == Init /\ [][NextDecoder]_vars

---------------------------------------------------------------------------
(* The decode engine *)

\* the invocations of one operation, by position in the history
CallsOf(op) == {i \in 1..Len(calls) : calls[i].op = op}

\* the packets of a buffer the decoder sends to the codec, in file order
IsOnStream(pkt) == IsSome(decoder) /\ pkt.stream = Unwrap(decoder).video_stream_index
VideoPackets(buf) == SelectSeq(buf.packets, IsOnStream)

\* the video packets of a buffer whose position is the target
PacketsAt(buf, target) ==
    {k \in 1..Len(VideoPackets(buf)) : VideoPackets(buf)[k].pos = target}

\* the codec accepts every packet of the buffer
AllAccepted(buf) == \A k \in 1..Len(buf.packets) : buf.packets[k].ok

\* C16: decode_frame(buffer, target_offset) returns no frame but that of the
\* video packet at target_offset; on a buffer whose packets the codec accepts
\* it returns that frame when there is such a packet, and FrameNotFound when
\* there is none.
C16_FrameAtTargetOffset ==
    \A i \in CallsOf("decode_frame") :
        LET c == calls[i]
            at == PacketsAt(c.buf, c.arg)
        IN  c.buf.container =>
                /\ c.result.ok =>
                       \E k \in at : c.result.val.pic = VideoPackets(c.buf)[k].pic
                /\ (AllAccepted(c.buf) /\ at = {}) => c.result = Err("FrameNotFound")
                /\ (AllAccepted(c.buf) /\ at # {}) => c.result.ok

\* the decoder as constructed: nothing buffered, no EOF sent
AsNew(d) == flush(d)

\* what an invocation returns on the decoder as constructed
OnNewDecoder(c) ==
    IF c.op = "decode_frames" THEN decode_frames(AsNew(Unwrap(decoder)), c.buf, c.arg).res
    ELSE decode_frame(AsNew(Unwrap(decoder)), c.buf, c.arg).res

\* C17: whatever was decoded before on the decoder, each invocation returns
\* what it returns on the decoder as constructed, so two invocations with the
\* same buffer and target return the same.
C17_DecodeIndependentOfHistory ==
    /\ \A i \in CallsOf("decode_frames") \cup CallsOf("decode_frame") :
           calls[i].result = OnNewDecoder(calls[i])
    /\ \A i, j \in CallsOf("decode_frames") \cup CallsOf("decode_frame") :
           (calls[i].op = calls[j].op /\ calls[i].buf = calls[j].buf
                /\ calls[i].arg = calls[j].arg) =>
               calls[i].result = calls[j].result

\* the same frames were decoded twice in succession, with success, and each
\* invocation returned early leaving a picture buffered in the codec
C17_Witness ==
    /\ Len(calls) = 3
    /\ calls[2].op = "decode_frames" /\ calls[3].op = "decode_frames"
    /\ calls[3].buf = calls[2].buf /\ calls[3].arg = calls[2].arg
    /\ calls[3].result = calls[2].result
    /\ calls[2].result.ok /\ calls[2].result.val # <<>>
    /\ IsSome(decoder) /\ Unwrap(decoder).pending # <<>>

\* every DecodedFrame the invocations returned
FramesProduced ==
    UNION {{calls[i].result.val[k] : k \in 1..Len(calls[i].result.val)} :
               i \in {j \in CallsOf("decode_frames") : calls[j].result.ok}}
    \cup {calls[i].result.val : i \in {j \in CallsOf("decode_frame") : calls[j].result.ok}}

\* C18: every DecodedFrame has a payload of W*H + 2*(W/2)*(H/2) bytes, which
\* is y_plane_size() + 2*chroma_plane_size(), and linesize [W, W/2, W/2].
C18_PayloadSize ==
    \A f \in FramesProduced :
        /\ f.len = f.width * f.height + 2 * (f.width \div 2) * (f.height \div 2)
        /\ f.len = y_plane_size(f) + 2 * chroma_plane_size(f)
        /\ f.linesize = <<f.width, f.width \div 2, f.width \div 2>>

\* C19: Decoder::new returns no Decoder for a video of odd width or height,
\* so a Decoder has even width and even height.
C19_OddDimensionsRejected ==
    /\ \A i \in CallsOf("new") :
           (calls[i].buf.width % 2 = 1 \/ calls[i].buf.height % 2 = 1) => ~calls[i].result.ok
    /\ IsSome(decoder) => Unwrap(decoder).width % 2 = 0 /\ Unwrap(decoder).height % 2 = 0

\* C20: a decode_frames that succeeds returns one frame per index, the i-th
\* being that of the video packet at decode position indices[i].
C20_FramesAtRequestedPositions ==
    \A i \in CallsOf("decode_frames") :
        LET c == calls[i]
        IN  c.result.ok =>
                /\ Len(c.result.val) = Len(c.arg)
                /\ \A k \in 1..Len(c.arg) :
                       /\ c.arg[k] + 1 <= Len(VideoPackets(c.buf))
                       /\ c.result.val[k].pic = VideoPackets(c.buf)[c.arg[k] + 1].pic

\* indices out of order, and a repeated index, were both decoded with success
C20_Witness ==
    /\ \E i \in CallsOf("decode_frames") :
           /\ calls[i].result.ok
           /\ Len(calls[i].arg) = 2 /\ calls[i].arg[1] > calls[i].arg[2]
    /\ \E i \in CallsOf("decode_frames") :
           /\ calls[i].result.ok
           /\ Len(calls[i].arg) = 2 /\ calls[i].arg[1] = calls[i].arg[2]

\* a buffer that decodes: a container whose video packets the codec accepts
Decodes(buf) == buf.container /\ AllAccepted(buf)

\* the number of frames a buffer decodes to: one per video packet
TotalFrames(buf) == Len(VideoPackets(buf))

\* the positions of the requested indices that are out of range
OutOfRange(buf, indices) == {k \in 1..Len(indices) : indices[k] >= TotalFrames(buf)}

---------------------------------------------------------------------------
(* pipeline::encoder: JpegEncoder *)

\* JpegEncoder::new and set_quality calls made on one encoder
MaxQualityCalls == 2
\* encode calls made on one encoder
MaxEncodes == 2

\* the values of a u8
U8 == 0..255

\* clamp leaving the value as it is
clampNothing(quality) == quality

\* `quality.clamp(1, 100) as i32`
clamp(quality) == IF quality < 1 THEN 1 ELSE IF quality > 100 THEN 100 ELSE quality

\* what TurboJPEG can answer to a call: done, or the step that failed
CompressorEnvs == {"ok", "Compressor::new", "set_quality", "set_subsamp"}

\* JpegEncoder::new(quality): clamp, create the compressor, set its quality
\* and its subsampling; any failure returns the error and no encoder
JpegEncoderNew(quality, env) ==
    IF env # "ok" THEN Err(env)
    ELSE Ok([quality |-> clamp(quality), compressor |-> clamp(quality)])

\* JpegEncoder::set_quality(quality): the field is assigned, then the
\* compressor is told, which can fail
set_quality(e, quality, env) ==
    [enc |-> [quality |-> clamp(quality),
              compressor |-> IF env = "ok" THEN clamp(quality) ELSE e.compressor],
     res |-> IF env = "ok" THEN Ok("()") ELSE Err("Failed to set quality")]

\* JpegEncoder::quality(): `self.quality as u8`
quality(e) == e.quality % 256

\* JpegEncoder::encode(frame): the compressor is run on the frame; the
\* quality field is not touched
encode(e, frame, env) ==
    [enc |-> e,
     res |-> IF env = "ok" THEN Ok([pic |-> frame.pic, quality |-> e.compressor])
             ELSE Err("JPEG compression failed")]

\* frames handed to encode
EncoderFrames == {convert_frame([width |-> 4, height |-> 2], "a1"),
                  convert_frame([width |-> 3, height |-> 4], "o1")}

\* JpegEncoder::new(q)
NewEncoder(q, env) ==
    LET r == JpegEncoderNew(q, env)
    IN  /\ encoder = None
        /\ elog.calls < MaxQualityCalls
        /\ encoder' = IF r.ok THEN Some(r.val) ELSE None
        /\ elog' = [elog EXCEPT !.supplied = IF r.ok THEN Some(q) ELSE @, !.calls = @ + 1]
        /\ UNCHANGED <<pc, video_path, video_data, loc, log, session, decoder, calls, config, validations, extraction, client>>

\* encoder.set_quality(q)
SetQuality(q, env) ==
    /\ IsSome(encoder)
    /\ elog.calls < MaxQualityCalls
    /\ encoder' = Some(set_quality(Unwrap(encoder), q, env).enc)
    /\ elog' = [elog EXCEPT !.supplied = Some(q), !.calls = @ + 1]
    /\ UNCHANGED <<pc, video_path, video_data, loc, log, session, decoder, calls, config, validations, extraction, client>>

\* encoder.encode(frame)
Encode(frame, env) ==
    /\ IsSome(encoder)
    /\ elog.encodes < MaxEncodes
    /\ encoder' = Some(encode(Unwrap(encoder), frame, env).enc)
    /\ elog' = [elog EXCEPT !.encodes = @ + 1]
    /\ UNCHANGED <<pc, video_path, video_data, loc, log, session, decoder, calls, config, validations, extraction, client>>

NextEncoder ==
    \/ \E q \in U8, env \in CompressorEnvs : NewEncoder(q, env)
    \/ \E q \in U8, env \in {"ok", "set_quality"} : SetQuality(q, env)
    \/ \E frame \in EncoderFrames, env \in {"ok", "compress"} : Encode(frame, env)

SpecEncoder == Init /\ [][NextEncoder]_vars

\* a quality brought into [1,100]: 0 becomes 1, above 100 becomes 100
Clamped(q) == IF q = 0 THEN 1 ELSE IF q \in 101..255 THEN 100 ELSE q

\* the quality supplied last
LastSupplied == Unwrap(elog.supplied)

\* C22: after any new(q) and set_quality(q) calls with q in 0..255, and any
\* encodes between them, quality() is the q supplied last clamped into
\* [1,100], so it lies in 1..100.
C22_QualityClamped ==
    IsSome(encoder) =>
        /\ quality(Unwrap(encoder)) = Clamped(LastSupplied)
        /\ quality(Unwrap(encoder)) \in 1..100

\* an encoder was made, then set to 255, has encoded twice, and reports 100
C22_Witness ==
    /\ IsSome(encoder)
    /\ elog.calls = 2 /\ elog.supplied = Some(255)
    /\ elog.encodes = MaxEncodes
    /\ quality(Unwrap(encoder)) = 100

\* an encoder made with 0 reports 1
C22_ZeroGivesOne ==
    /\ IsSome(encoder)
    /\ elog.calls = 1 /\ elog.supplied = Some(0)
    /\ quality(Unwrap(encoder)) = 1

---------------------------------------------------------------------------
(* config: Config and its validation *)

\* validate calls made in one run
MaxValidations == 2

\* bucket names: none given, and two names
BucketNames == {"", "my-bucket", "b"}

\* the configurations the command line and the environment can give (the
\* fields validate and create_store read, and the JPEG quality)
Configs ==
    [storage_backend : {"local", "s3"}, local_path : {"./data", ""},
     s3_bucket : BucketNames, s3_endpoint : {None, Some("http://minio:9000")},
     jpeg_quality : {0, 80, 255}]

\* validate asking for a bucket whatever the backend
validateAnyBackend(c) ==
    IF c.s3_bucket = "" THEN Err("MissingS3Bucket") ELSE Ok("()")

\* Config::validate
validate(c) ==
    IF c.storage_backend = "s3" /\ c.s3_bucket = "" THEN Err("MissingS3Bucket")
    ELSE Ok("()")

\* the configuration is drawn from what parse_args can return
InitConfig ==
    /\ InitBut
    /\ config \in Configs

\* config.storage_backend = ..
SetStorageBackend(b) ==
    /\ config.storage_backend # b
    /\ config' = [config EXCEPT !.storage_backend = b]
    /\ UNCHANGED <<pc, video_path, video_data, loc, log, session, decoder, calls,
                   encoder, elog, validations, extraction, client>>

\* config.s3_bucket = ..
SetS3Bucket(name) ==
    /\ config.s3_bucket # name
    /\ config' = [config EXCEPT !.s3_bucket = name]
    /\ UNCHANGED <<pc, video_path, video_data, loc, log, session, decoder, calls,
                   encoder, elog, validations, extraction, client>>

\* config.validate()
Validate ==
    /\ Len(validations) < MaxValidations
    /\ validations' = Append(validations, [config |-> config, result |-> validate(config)])
    /\ UNCHANGED <<pc, video_path, video_data, loc, log, session, decoder, calls,
                   encoder, elog, config, extraction, client>>

NextConfig ==
    \/ \E b \in {"local", "s3"} : SetStorageBackend(b)
    \/ \E name \in BucketNames : SetS3Bucket(name)
    \/ Validate

SpecConfig == InitConfig /\ [][NextConfig]_vars

\* C23: validate fails, with MissingS3Bucket, exactly for the s3 backend with
\* an empty bucket; the defaults, the local backend with an empty bucket and
\* s3 with a bucket all validate.
C23_ValidateS3NeedsBucket ==
    \A i \in 1..Len(validations) :
        LET c == validations[i].config
            r == validations[i].result
        IN  /\ ~r.ok <=> (c.storage_backend = "s3" /\ c.s3_bucket = "")
            /\ ~r.ok => r = Err("MissingS3Bucket")
            /\ c = DefaultConfig => r.ok
            /\ (c.storage_backend = "local" /\ c.s3_bucket = "") => r.ok
            /\ (c.storage_backend = "s3" /\ c.s3_bucket # "") => r.ok

\* the defaults validated, and with the backend then set to s3 and the
\* bucket still empty validation failed
C23_Witness ==
    /\ Len(validations) = 2
    /\ validations[1].config = DefaultConfig /\ validations[1].result.ok
    /\ validations[2].config = [DefaultConfig EXCEPT !.storage_backend = "s3"]
    /\ ~validations[2].result.ok

---------------------------------------------------------------------------
(* storage: exists *)

\* the positions at which storage::exists was awaited
ExistsAt == {p \in 1..Len(log) : log[p].ev = "exists"}

\* what the handler did right after the step at position p: the next entry
\* of the history, or where the task is now
ThenFetches(p) == IF p < Len(log) THEN log[p + 1].ev = "fetch" ELSE pc = "fetch"
ThenSends(p, frame) ==
    IF p < Len(log) THEN IsSend(log[p + 1]) /\ log[p + 1].frame = frame
    ELSE pc \in {"send_videoset_false", "send_error"}

\* C24: exists returns Ok(true) when head succeeds, and the video is then
\* fetched; Ok(false) only when the store reports the object as not found,
\* and VideoSet{ok: false} is then sent; for every other failure of head it
\* returns an error, never Ok(false), and an Error frame is then sent.
C24_ExistsAbsentOrUnavailable ==
    \A p \in ExistsAt :
        LET r == exists(log[p].r)
        IN  /\ log[p].r = "ok" => r = Ok(TRUE) /\ ThenFetches(p)
            /\ log[p].r = "notfound" =>
                   r = Ok(FALSE) /\ ThenSends(p, VideoSetMsg(log[p].path, FALSE))
            /\ log[p].r \notin {"ok", "notfound"} =>
                   /\ ~r.ok
                   /\ ThenSends(p, ErrorMsg("Failed to check object existence"))
            /\ (r.ok /\ ~r.val) => log[p].r = "notfound"

\* exists was awaited for an object that is there, for one that is absent
\* and while the store was unavailable, and each was answered
C24_Witness ==
    /\ pc = "recv"
    /\ \A h \in HeadResults : \E p \in ExistsAt : log[p].r = h /\ p < Len(log)

---------------------------------------------------------------------------
(* repo-cli convert: extract_frame_offsets *)

\* packets in one file
MaxPackets == 3

\* packet.position() values: unknown (-1), and byte offsets
Positions == {-1, 0, 48, 100}

\* packets of a file as ictx.packets() yields them: the stream, the keyframe
\* flag, the position
FilePackets ==
    [stream : {0}, key : BOOLEAN, pos : Positions]
    \cup {[stream |-> 1, key |-> TRUE, pos |-> 20]}

\* the files handed to extract_frame_offsets: with a video stream (stream 0)
\* and packets in demux order, or without a video stream
Files ==
    {[video |-> TRUE, packets |-> ps] : ps \in SeqsUpTo(FilePackets, MaxPackets)}
    \cup {[video |-> FALSE, packets |-> <<[stream |-> 1, key |-> TRUE, pos |-> 20]>>]}

\* FrameEntry
FrameEntry(offset, irap_offset) == [offset |-> offset, irap_offset |-> irap_offset]

\* extract_frame_offsets is called on a file
InitExtract ==
    /\ \E file \in Files : extraction = NotExtracting(file)
    /\ client = NoClient
    /\ pc = "recv" /\ video_path = None /\ video_data = None /\ loc = NoLoc
    /\ log = <<>> /\ session = NoSession /\ decoder = None /\ calls = <<>>
    /\ encoder = None /\ elog = [supplied |-> None, calls |-> 0, encodes |-> 0]
    /\ validations = <<>> /\ config = DefaultConfig

\* ffmpeg::format::input, streams().best(Video): the video stream is found,
\* or the call returns NoVideoStream
OpenInput ==
    /\ extraction.at = "start"
    /\ extraction' =
           IF extraction.file.video THEN [extraction EXCEPT !.at = "packets"]
           ELSE [extraction EXCEPT !.at = "returned", !.result = Some(Err("NoVideoStream"))]
    /\ UNCHANGED <<pc, video_path, video_data, loc, log, session, decoder, calls,
                   encoder, elog, config, validations, client>>

\* the offset of the keyframe kept for the entries that follow
IrapAfter(current, packet) == IF packet.key THEN packet.pos ELSE current

\* one iteration of `for (stream, packet) in ictx.packets()`: packets of
\* other streams and packets of unknown position are skipped; a keyframe
\* becomes the current IRAP; an entry is pushed
ReadPacket ==
    /\ extraction.at = "packets"
    /\ extraction.next <= Len(extraction.file.packets)
    /\ LET packet == extraction.file.packets[extraction.next]
       IN  extraction' =
               IF packet.stream # 0 \/ packet.pos < 0
               THEN [extraction EXCEPT !.next = @ + 1]
               ELSE [extraction EXCEPT
                        !.next = @ + 1,
                        !.current_irap_offset = IrapAfter(@, packet),
                        !.frames = Append(@, FrameEntry(packet.pos,
                                       IrapAfter(extraction.current_irap_offset, packet)))]
    /\ UNCHANGED <<pc, video_path, video_data, loc, log, session, decoder, calls,
                   encoder, elog, config, validations, client>>

\* after the loop: the sidecar is serialised and written, and the number of
\* entries returned; the write can fail
WriteSidecar(written) ==
    /\ extraction.at = "packets"
    /\ extraction.next > Len(extraction.file.packets)
    /\ extraction' =
           [extraction EXCEPT
               !.at = "returned",
               !.result = Some(IF written THEN Ok(Len(extraction.frames))
                               ELSE Err("write failed"))]
    /\ UNCHANGED <<pc, video_path, video_data, loc, log, session, decoder, calls,
                   encoder, elog, config, validations, client>>

NextExtract ==
    \/ OpenInput
    \/ ReadPacket
    \/ \E written \in BOOLEAN : WriteSidecar(written)

SpecExtract == InitExtract /\ [][NextExtract]_vars

\* the video packets of known position among the packets read so far
IsIndexed(packet) == packet.stream = 0 /\ packet.pos >= 0
Indexed == SelectSeq(SubSeq(extraction.file.packets, 1, extraction.next - 1), IsIndexed)

\* the keyframe entries at or before entry i
KeyframesUpTo(i) == {j \in 1..i : Indexed[j].key}

\* C25: the entries are those of the video packets in demux order, and the
\* irap_offset of each is the offset of the nearest keyframe entry at or
\* before it, its own at a keyframe; so it is the offset of a keyframe entry
\* of the list and at most the offset of the entry.
C25_IrapIsNearestKeyframe ==
    LET frames == extraction.frames
    IN  /\ Len(frames) = Len(Indexed)
        /\ \A i \in 1..Len(frames) :
               /\ frames[i].offset = Indexed[i].pos
               /\ KeyframesUpTo(i) # {}
               /\ frames[i].irap_offset =
                      Indexed[CHOOSE j \in KeyframesUpTo(i) :
                                  \A j2 \in KeyframesUpTo(i) : j2 <= j].pos
               /\ frames[i].irap_offset <= frames[i].offset

\* a file as the transcoder writes it: the first indexed video packet is a
\* keyframe, and positions grow in demux order
StartsAtKeyframe ==
    LET all == SelectSeq(extraction.file.packets, IsIndexed)
    IN  /\ all # <<>> => all[1].key
        /\ \A i \in 1..Len(all) - 1 : all[i].pos < all[i + 1].pos

\* on such a file the entries are as C25 states
C25_HoldsFromKeyframe == StartsAtKeyframe => C25_IrapIsNearestKeyframe

---------------------------------------------------------------------------
(* Jobs, decoders and the latched bytes of a batch *)

\* the jobs dispatched and the jobs completed in the first n entries
SpawnedIn(n) == Len(SelectSeq(SubSeq(log, 1, n), IsSpawn))
DoneIn(n) == Len(SelectSeq(SubSeq(log, 1, n), IsDone))

\* the blocking jobs in flight
InFlight == SpawnedIn(Len(log)) - DoneIn(Len(log))

\* the response to request k of the batch was sent in full just before
\* position p: the job's completion, then FrameError, or Frame and binary
AnsweredJustBefore(p, k) ==
    /\ p > 2
    /\ IsSent(log[p - 1]) /\ log[p - 1].k = k
    /\ \/ /\ log[p - 1].frame.type = "FrameError"
          /\ IsDone(log[p - 2]) /\ log[p - 2].k = k
       \/ /\ log[p - 1].frame.type = "Binary"
          /\ p > 3
          /\ IsSent(log[p - 2]) /\ log[p - 2].k = k /\ log[p - 2].frame.type = "Frame"
          /\ IsDone(log[p - 3]) /\ log[p - 3].k = k

\* C26: at most one blocking job is in flight, and while one is the task
\* awaits it and does nothing else; the job of the first request of a batch
\* is dispatched on receiving the batch, when no job of an earlier batch is
\* in flight; the job of request k+1 is dispatched right after the job of
\* request k completed and its response frames were sent.
C26_OneJobInFlight ==
    /\ InFlight \in {0, 1}
    /\ InFlight = 1 <=> pc = "job"
    /\ \A p \in 1..Len(log) :
           /\ IsSpawn(log[p]) =>
                  /\ SpawnedIn(p - 1) = DoneIn(p - 1)
                  /\ p > 1
                  /\ IF log[p].k = 1 THEN IsRecv(log[p - 1])
                     ELSE AnsweredJustBefore(p, log[p].k - 1)
           /\ IsDone(log[p]) =>
                  p > 1 /\ IsSpawn(log[p - 1]) /\ log[p - 1].k = log[p].k

\* the first request of a batch was answered with a frame, the second with
\* a FrameError, and the job of the third is in flight
C26_Witness ==
    /\ pc = "job"
    /\ \E r \in LatchedBatches :
           /\ Len(SpawnsOf(r)) = 3 /\ Len(DonesOf(r)) = 2
           /\ TypesOf(Frames(Handling(r))) = <<"Frame", "Binary", "FrameError">>

\* the Decoders the job that returned res constructed: process_frame begins
\* with Decoder::new on the bytes it was given, and goes on to decode only
\* when that succeeded
DecodersConstructed(res) ==
    IF res.tag = "ok" \/ (res.tag = "err" /\ res.error = "FrameNotFound") THEN 1 ELSE 0

RECURSIVE ConstructionsIn(_)
ConstructionsIn(h) ==
    IF h = <<>> THEN 0
    ELSE (IF IsDone(Head(h)) THEN DecodersConstructed(Head(h).result) ELSE 0)
         + ConstructionsIn(Tail(h))

\* C27: handling a RequestFrames constructs no Decoder, however many frames
\* it requests; Decoders are constructed while a SetVideo is handled only.
C27_DecoderBuiltBySetVideoOnly ==
    \A r \in RecvAt :
        ~IsSetVideoAt(r) => ConstructionsIn(Handling(r)) = 0

\* the decoder outputs the frame of a packet once it has the next packet
OnePacketDelay == IsSome(decoder) /\ Unwrap(decoder).delay = 1

\* the positions of the video packets of a buffer that code a picture
PositionsOf(buf, pic) ==
    {VideoPackets(buf)[k].pos : k \in {n \in 1..Len(VideoPackets(buf)) :
                                          VideoPackets(buf)[n].pic = pic}}

\* C28: on a decoder with a one-packet output delay, the frame decode_frame
\* returns for target_offset is the picture of the packet at target_offset,
\* never that of the packet before or after it.
C28_DelayedOutputStillTargets ==
    OnePacketDelay =>
        \A i \in CallsOf("decode_frame") :
            calls[i].result.ok =>
                PositionsOf(calls[i].buf, calls[i].result.val.pic) = {calls[i].arg}

\* the video packets of a buffer whose position is known and is the target
KnownAt(buf, target) ==
    {k \in 1..Len(VideoPackets(buf)) :
        VideoPackets(buf)[k].pos # -1 /\ VideoPackets(buf)[k].pos = target}

C30_BatchDecodesLatchedBytes ==
    \A r \in LatchedBatches :
        LET h == Handling(r)
        IN  /\ \A p \in 1..Len(h) :
                   /\ IsSpawn(h[p]) => h[p].data = BytesOf(Unwrap(VideoAt(r)))
                   /\ (IsSend(h[p]) /\ h[p].frame.type = "Binary") =>
                          h[p].frame.jpeg.obj = Unwrap(VideoAt(r))
                   /\ h[p].ev \notin {"recv", "exists", "fetch"}
            /\ VideoAt(EndOf(r) + 1) = VideoAt(r)
            /\ (EndOf(r) = Len(log)) => video_path = VideoAt(r)

\* a batch was answered with a picture of the second video the session
\* latched
C30_SecondVideoServed ==
    \E r \in LatchedBatches :
        /\ \E j \in 1..r : log[j].ev = "fetch" /\ log[j].r = "ok"
                           /\ log[j].path # Unwrap(VideoAt(r))
        /\ \E p \in r + 1..EndOf(r) : IsSent(log[p]) /\ log[p].frame.type = "Binary"

\* a batch was answered with a picture of the video latched when it began,
\* and the SetVideo received next latched another video
C30_Witness ==
    \E r \in LatchedBatches :
        /\ \E p \in r + 1..EndOf(r) : IsSent(log[p]) /\ log[p].frame.type = "Binary"
        /\ IsSome(video_path) /\ video_path # VideoAt(r)

---------------------------------------------------------------------------
(* Closure of the transport, pings, progress *)

\* the positions at which a job completed
DoneAt == {p \in 1..Len(log) : IsDone(log[p])}

\* the transport was closed when the job that completed at p was in flight:
\* it refused a send after p, and accepted none
ClosedInFlight(p) ==
    /\ \E j \in p + 1..Len(log) : IsRefused(log[j])
    /\ \A j \in p + 1..Len(log) : IsSend(log[j]) => ~log[j].ok

\* C31: when the transport is closed while a job is in flight, the job
\* completes, the send of its response and the send of the Error that
\* follows are refused, and the loop ends; no frame of the result is
\* delivered, no job is dispatched after it and nothing more is received.
C31_ClosureDropsResult ==
    \A p \in DoneAt :
        ClosedInFlight(p) =>
            /\ \A j \in p + 1..Len(log) : IsRefused(log[j])
            /\ Len(log) <= p + 2
            /\ IsResponseFrame(log[p + 1].frame) /\ log[p + 1].k = log[p].k
            /\ Len(log) = p + 1 => pc = "send_error"
            /\ Len(log) = p + 2 => log[p + 2].frame.type = "Error" /\ pc = "closed"

\* the transport was closed while the first job of a batch of several
\* requests was in flight; the job returned a JPEG, and the loop has ended
C31_Witness ==
    \E p \in DoneAt :
        /\ ClosedInFlight(p)
        /\ pc = "closed"
        /\ log[p].k = 1 /\ log[p].result.tag = "ok"
        /\ \E r \in LatchedBatches : r < p /\ EndOf(r) = Len(log) /\ Len(BatchOf(r)) >= 2

\* the pings received
PingsAt == {r \in RecvAt : log[r].in.kind = "ping"}

\* C32: a ping, with or without a video latched, attempts one send, that of
\* a pong with the ping's payload, and leaves the latched video as it was;
\* it is received between the handlings of other messages, so no response
\* frame is sent while it is handled, and no pong the connection emits comes
\* right after a Frame header.
C32_PingGetsPong ==
    /\ \A r \in PingsAt :
           LET h == Handling(r)
           IN  /\ Len(h) <= 1
               /\ \A p \in 1..Len(h) :
                      IsSend(h[p]) /\ h[p].frame = PongFrame(log[r].in.payload)
               /\ Complete(r) => Len(h) = 1
               /\ VideoAt(EndOf(r) + 1) = VideoAt(r)
               /\ (EndOf(r) = Len(log)) =>
                      /\ video_path = VideoAt(r)
                      /\ IsSome(video_path) => video_data = Some(BytesOf(Unwrap(video_path)))
               /\ (Complete(r) /\ ~Refused(r)) => RunningAfter(r)
    /\ \A r \in RecvAt \ PingsAt :
           \A p \in 1..Len(Handling(r)) :
               IsSend(Handling(r)[p]) => Handling(r)[p].frame.type # "Pong"
    /\ \A i \in 1..Len(Out) :
           Out[i].type = "Pong" => i = 1 \/ Out[i - 1].type # "Frame"

\* with a video latched and a batch answered, a ping was answered with a
\* pong of its payload, right after the last binary frame of the batch
C32_Witness ==
    \E i \in 2..Len(Out) :
        /\ Out[i] = PongFrame("q")
        /\ Out[i - 1].type = "Binary"
        /\ IsSome(video_path)

\* the blocking job of the awaited JoinHandle comes to its end
JobEnds == \E r \in AllJobResults : JobDone(r)

\* a send that is awaited inside the handling of a batch returns
SendReturns ==
    \E okv \in BOOLEAN :
        SendHeader(okv) \/ SendBinary(okv) \/ SendFrameError(okv) \/ SendError(okv)

\* the connection under a runtime that lets every blocking job end and
\* every awaited send return
FairSpec == Spec /\ WF_vars(JobEnds) /\ WF_vars(SendReturns)

\* the position in the history of the n-th inbound event
NthRecv(n) == CHOOSE r \in RecvAt : Cardinality({j \in RecvAt : j <= r}) = n

\* the n-th inbound event is a batch received with a video latched
BatchReceived(n) ==
    n <= Len(Received) /\ NthRecv(n) \in LatchedBatches

\* request i of the batch at r has its response: a FrameError, or a Frame
\* header and a binary frame after it
Responded(r, i) ==
    \E p \in r + 1..EndOf(r) :
        /\ IsSent(log[p]) /\ log[p].k = i
        /\ \/ log[p].frame.type = "FrameError"
           \/ /\ log[p].frame.type = "Frame"
              /\ p < EndOf(r)
              /\ IsSent(log[p + 1]) /\ log[p + 1].frame.type = "Binary"

\* every request of the n-th inbound event has its response and the
\* connection is back at receiver.next()
BatchCompleted(n) ==
    /\ BatchReceived(n)
    /\ \A i \in 1..Len(BatchOf(NthRecv(n))) : Responded(NthRecv(n), i)
    /\ RunningAfter(NthRecv(n))

\* the transport has refused a write
TransportRefused == SendFailures > 0

---------------------------------------------------------------------------
(* The keyframe offset of a request *)

\* values of irap_offset a request could carry in place of its own: the
\* start of the file, a keyframe, positions past the offsets requested
IrapOffsets == {0, 10, 30, 120}

\* the request with another irap_offset
WithIrap(request, x) == [request EXCEPT !.irap_offset = x]

\* the text frame that answers a request whose job returned res
ResponseHead(request, res) ==
    IF res.tag = "ok" THEN FrameHeader(request, res.jpeg)
    ELSE FrameErrorOf(request, res)

\* the jobs dispatched
SpawnAt == {p \in 1..Len(log) : IsSpawn(log[p])}

\* C34: for every job dispatched and every other value of irap_offset, the
\* request with that value has the same possible job results on the same
\* bytes and, for each, the same response; the result the job returned and
\* the frames sent for it are those of the request with the other value.
C34_IrapOffsetIgnored ==
    \A p \in SpawnAt : \A x \in IrapOffsets :
        LET request == log[p].req
            twin == WithIrap(request, x)
            data == log[p].data
        IN  /\ JobResults(data, twin) = JobResults(data, request)
            /\ \A res \in JobResults(data, request) :
                   ResponseHead(twin, res) = ResponseHead(request, res)
            /\ p < Len(log) =>
                   /\ IsDone(log[p + 1])
                   /\ log[p + 1].result \in JobResults(data, twin)
            /\ p + 1 < Len(log) =>
                   /\ IsSend(log[p + 2])
                   /\ log[p + 2].frame = ResponseHead(twin, log[p + 1].result)
            /\ (p + 2 < Len(log) /\ IsSent(log[p + 2]) /\ log[p + 1].result.tag = "ok") =>
                   /\ IsSend(log[p + 3])
                   /\ log[p + 3].frame = BinaryFrame(log[p + 1].result.jpeg)

\* a request whose irap_offset is greater than its offset was answered with
\* its Frame header and its binary frame
C34_Witness ==
    \E p \in SpawnAt :
        /\ log[p].req.irap_offset > log[p].req.offset
        /\ p + 3 <= Len(log)
        /\ log[p + 1].result.tag = "ok"
        /\ IsSent(log[p + 2]) /\ log[p + 2].frame.type = "Frame"
        /\ log[p + 2].frame.offset = log[p].req.offset
        /\ IsSent(log[p + 3]) /\ log[p + 3].frame.type = "Binary"

---------------------------------------------------------------------------
(* Format contexts *)

\* the calls of Decoder::new and decode_frames made so far
SourceCalls == {i \in 1..Len(calls) : calls[i].op \in {"new", "decode_frames"}}

\* C35: no call of Decoder::new or of a decode invocation returns with the
\* format context it opened still open, whether it returns Ok or an error.
C35_FormatContextClosed ==
    \A i \in 1..Len(calls) : calls[i].fmt_ctx # "open"

\* what holds: a call that returns Ok, or that fails once the stream and the
\* decoder are found and opened, has closed the context it opened
C35_ClosedOnSuccess ==
    \A i \in SourceCalls :
        (calls[i].result.ok \/ calls[i].result.err \in {"ScalerInit", "FrameNotFound"}) =>
            calls[i].fmt_ctx \in {"closed", "unopened"}

---------------------------------------------------------------------------
(* pipeline::session: Session *)

\* calls made on one Session
MaxSessionCalls == 6
\* requests a frame_queue holds
MaxQueue == 3

\* Session::new(jpeg_quality)
SessionNew(jpeg_quality, env) ==
    LET e == JpegEncoderNew(jpeg_quality, env)
    IN  IF ~e.ok THEN e
        ELSE Ok([video_path |-> None, video_data |-> None, decoder |-> None,
                 encoder |-> e.val, frame_queue |-> <<>>])

\* videos handed to set_video: two that decode, one with no video stream
SessionVideos == {<<"a.mp4", GopA>>, <<"b.mp4", GopB>>, <<"s.mp4", AudioOnly>>}

\* frame lists handed to queue_frames; offset 99 is the position of no packet
SessionFrameLists ==
    { <<>>, <<FrameRequest(10, 10, 0)>>,
      <<FrameRequest(20, 10, 1), FrameRequest(99, 10, 2)>> }

\* set_video that clears nothing
set_videoKeepingQueue(s, path, data, delay, env) ==
    LET made == DecoderNew(data, delay, env)
    IN  IF ~made.ok THEN [sess |-> s, res |-> made]
        ELSE [sess |-> [s EXCEPT !.video_path = Some(path), !.video_data = Some(data),
                                 !.decoder = Some(made.val)],
              res |-> Ok("()")]

\* Session::set_video(path, data): `Decoder::new(&data)?` first, then the
\* three fields are assigned and the queue is cleared
set_video(s, path, data, delay, env) ==
    LET made == DecoderNew(data, delay, env)
    IN  IF ~made.ok THEN [sess |-> s, res |-> made]
        ELSE [sess |-> [s EXCEPT !.video_path = Some(path), !.video_data = Some(data),
                                 !.decoder = Some(made.val), !.frame_queue = <<>>],
              res |-> Ok("()")]

\* Session::queue_frames(frames): frame_queue.extend(frames)
queue_frames(s, frames) == [s EXCEPT !.frame_queue = @ \o frames]

\* Session::has_pending_frames()
has_pending_frames(s) == s.frame_queue # <<>>

\* Session::clear_queue()
clear_queue(s) == [s EXCEPT !.frame_queue = <<>>]

\* Session::process_frame(request): the decoder and the bytes must be there;
\* decode_frame at request.offset, then encode
session_process_frame(s, request, env) ==
    IF s.decoder = None THEN [sess |-> s, result |-> Err("No decoder initialized")]
    ELSE IF s.video_data = None THEN [sess |-> s, result |-> Err("No video data loaded")]
    ELSE LET dec == decode_frame(Unwrap(s.decoder), Unwrap(s.video_data), request.offset)
             s2 == [s EXCEPT !.decoder = Some(dec.dec)]
         IN  IF ~dec.res.ok THEN [sess |-> s2, result |-> Err(dec.res.err)]
             ELSE LET enc == encode(s.encoder, dec.res.val, env)
                  IN  [sess |-> [s2 EXCEPT !.encoder = enc.enc], result |-> enc.res]

\* pop_front taking the request queued last
pop_back(q) == [request |-> q[Len(q)], rest |-> SubSeq(q, 1, Len(q) - 1)]

\* VecDeque::pop_front on a queue that is not empty
pop_front(q) == [request |-> Head(q), rest |-> Tail(q)]

\* Session::process_next(): None on an empty queue; else the front request
\* is removed, processed, and returned with its result
process_next(s, env) ==
    IF s.frame_queue = <<>> THEN [sess |-> s, ret |-> None]
    ELSE LET popped == pop_front(s.frame_queue)
             r == session_process_frame([s EXCEPT !.frame_queue = popped.rest],
                                        popped.request, env)
         IN  [sess |-> r.sess,
              ret |-> Some([request |-> popped.request, result |-> r.result])]

SetVideoCall(path, data, r) == [op |-> "set_video", path |-> path, data |-> data, result |-> r]
QueueCall(frames) == [op |-> "queue_frames", frames |-> frames]
NextCall(pending, ret) == [op |-> "process_next", pending |-> pending, ret |-> ret]
ClearCall == [op |-> "clear_queue"]

\* every variable the Session methods leave alone
SessionFrame ==
    UNCHANGED <<pc, video_path, video_data, loc, log, decoder, encoder, elog, config,
                validations, extraction, client>>

SetVideoOnSession(path, data, delay, env) ==
    LET r == set_video(session, path, data, delay, env)
    IN  /\ Len(calls) < MaxSessionCalls
        /\ session' = r.sess
        /\ calls' = Append(calls, SetVideoCall(path, data, r.res))
        /\ SessionFrame

QueueFrames(frames) ==
    /\ Len(calls) < MaxSessionCalls
    /\ Len(session.frame_queue) + Len(frames) <= MaxQueue
    /\ session' = queue_frames(session, frames)
    /\ calls' = Append(calls, QueueCall(frames))
    /\ SessionFrame

ProcessNext(env) ==
    LET r == process_next(session, env)
    IN  /\ Len(calls) < MaxSessionCalls
        /\ session' = r.sess
        /\ calls' = Append(calls, NextCall(has_pending_frames(session), r.ret))
        /\ SessionFrame

ClearQueue ==
    /\ Len(calls) < MaxSessionCalls
    /\ session' = clear_queue(session)
    /\ calls' = Append(calls, ClearCall)
    /\ SessionFrame

\* a Session as Session::new(config.jpeg_quality) returns it
InitSession ==
    /\ pc = "recv" /\ video_path = None /\ video_data = None /\ loc = NoLoc
    /\ log = <<>> /\ decoder = None /\ calls = <<>>
    /\ encoder = None /\ elog = [supplied |-> None, calls |-> 0, encodes |-> 0]
    /\ config = DefaultConfig /\ validations = <<>>
    /\ extraction = NotExtracting(EmptyFile)
    /\ client = NoClient
    /\ session = SessionNew(DefaultConfig.jpeg_quality, "ok").val

NextSession ==
    \/ \E v \in SessionVideos, delay \in {0}, env \in {"ok"} :
           SetVideoOnSession(v[1], v[2], delay, env)
    \/ \E frames \in SessionFrameLists : QueueFrames(frames)
    \/ \E env \in {"ok", "set_quality"} : ProcessNext(env)
    \/ ClearQueue

SpecSession == InitSession /\ [][NextSession]_vars

\* the call after which the queue was last empty by a clear: the last
\* clear_queue or successful set_video among the first n calls (0: none)
Clears(i) ==
    calls[i].op = "clear_queue" \/ (calls[i].op = "set_video" /\ calls[i].result.ok)
LastClear(n) ==
    LET cs == {i \in 1..n : Clears(i)}
    IN  IF cs = {} THEN 0 ELSE CHOOSE i \in cs : \A j \in cs : j <= i

\* the requests queued, and those returned, by calls a + 1 .. n
RECURSIVE QueuedIn(_, _)
QueuedIn(a, n) ==
    IF n <= a THEN <<>>
    ELSE QueuedIn(a, n - 1)
         \o (IF calls[n].op = "queue_frames" THEN calls[n].frames ELSE <<>>)
RECURSIVE ReturnedIn(_, _)
ReturnedIn(a, n) ==
    IF n <= a THEN <<>>
    ELSE ReturnedIn(a, n - 1)
         \o (IF calls[n].op = "process_next" /\ IsSome(calls[n].ret)
             THEN <<Unwrap(calls[n].ret).request>> ELSE <<>>)

NextCalls == {i \in 1..Len(calls) : calls[i].op = "process_next"}

\* C36: the requests process_next has returned since the queue was last
\* cleared, followed by those still queued, are the frame lists given to
\* queue_frames since then, in call order; a request is returned whatever
\* its result; and process_next returns None exactly when
\* has_pending_frames() was false.
C36_ProcessNextIsFifo ==
    /\ ReturnedIn(LastClear(Len(calls)), Len(calls)) \o session.frame_queue
           = QueuedIn(LastClear(Len(calls)), Len(calls))
    /\ \A i \in NextCalls :
           /\ (calls[i].ret = None) <=> ~calls[i].pending
           /\ LET a == LastClear(i)
              IN  IsSome(calls[i].ret) =>
                      Unwrap(calls[i].ret).request
                          = QueuedIn(a, i)[Len(ReturnedIn(a, i))]

\* two lists were queued with no decoder initialised; their three requests
\* came back in order, each with an error, and the next process_next
\* returned None
C36_Witness ==
    /\ Len(calls) = 6
    /\ calls[1].op = "queue_frames" /\ Len(calls[1].frames) = 1
    /\ calls[2].op = "queue_frames" /\ Len(calls[2].frames) = 2
    /\ calls[3].op = "process_next" /\ IsSome(calls[3].ret)
    /\ ~Unwrap(calls[3].ret).result.ok
    /\ Unwrap(calls[3].ret).request = calls[1].frames[1]
    /\ calls[4].op = "process_next" /\ IsSome(calls[4].ret)
    /\ Unwrap(calls[4].ret).request = calls[2].frames[1]
    /\ calls[5].op = "process_next" /\ IsSome(calls[5].ret)
    /\ Unwrap(calls[5].ret).request = calls[2].frames[2]
    /\ calls[6].op = "process_next" /\ calls[6].ret = None /\ ~calls[6].pending
    /\ session.frame_queue = <<>>

\* the last successful set_video among the first n calls (0: none)
LastVideo(n) ==
    LET vs == {i \in 1..n : calls[i].op = "set_video" /\ calls[i].result.ok}
    IN  IF vs = {} THEN 0 ELSE CHOOSE i \in vs : \A j \in vs : j <= i

\* the pictures a buffer codes
PicturesOf(buf) == {buf.packets[k].pic : k \in 1..Len(buf.packets)}

\* the step is a call of set_video
SetVideoStep == Len(calls') = Len(calls) + 1 /\ calls'[Len(calls')].op = "set_video"

\* a set_video that returns Ok leaves the path, the bytes and a decoder of
\* these bytes in the session, and an empty queue; one that returns an
\* error leaves the session as it was
SetVideoAllOrNothing ==
    SetVideoStep =>
        LET call == calls'[Len(calls')]
        IN  IF call.result.ok
            THEN /\ session'.video_path = Some(call.path)
                 /\ session'.video_data = Some(call.data)
                 /\ IsSome(session'.decoder)
                 /\ Unwrap(session'.decoder).width = call.data.width
                 /\ Unwrap(session'.decoder).height = call.data.height
                 /\ session'.frame_queue = <<>>
                 /\ session'.encoder = session.encoder
            ELSE session' = session

\* the requests returned since the last successful set_video were queued
\* after it, and a JPEG returned is of a picture of the video of that call
DecodedAgainstOwnVideo ==
    \A i \in NextCalls :
        LET v == LastVideo(i)
        IN  /\ Len(ReturnedIn(v, i)) <= Len(QueuedIn(v, i))
            /\ (IsSome(calls[i].ret) /\ Unwrap(calls[i].ret).result.ok) =>
                   /\ v > 0
                   /\ Unwrap(calls[i].ret).result.val.pic \in PicturesOf(calls[v].data)

\* C37: a successful set_video replaces video_path, video_data and decoder
\* together and empties the queue, so that no request queued before it is
\* decoded against the new video; a failed set_video changes nothing.
C37_SetVideoReplacesOrKeeps ==
    []DecodedAgainstOwnVideo /\ [][SetVideoAllOrNothing]_vars

\* a request was queued for the first video; a second set_video succeeded
\* and emptied the queue, a third failed and changed nothing; a request
\* queued then was answered with a picture of the second video
C37_Witness ==
    /\ Len(calls) = 6
    /\ calls[1].op = "set_video" /\ calls[1].result.ok
    /\ calls[2].op = "queue_frames" /\ calls[2].frames # <<>>
    /\ calls[3].op = "set_video" /\ calls[3].result.ok /\ calls[3].data # calls[1].data
    /\ calls[4].op = "set_video" /\ ~calls[4].result.ok
    /\ calls[5].op = "queue_frames" /\ Len(calls[5].frames) = 1
    /\ calls[6].op = "process_next" /\ IsSome(calls[6].ret)
    /\ Unwrap(calls[6].ret).result.ok
    /\ session.video_data = Some(calls[3].data)
    /\ session.frame_queue = <<>>

---------------------------------------------------------------------------
(* streaming-cli: the receive loop of run_benchmark *)

\* entries of the frames file
MaxFrames == 4
\* frames other than responses the server sends during one run
MaxOthers == 1

\* --batch
BatchSizes == 1..MaxBatch

\* all_frames: the entries of the frames file, indexed from 0 in file order
AllFrames(total) == [i \in 1..total |-> FrameRequest(10 * i, 10 * ((i + 1) \div 2), i - 1)]

\* all_frames.chunks(batch): the chunk that starts at entry `next`
Chunk(all_frames, next, size) ==
    SubSeq(all_frames, next,
           IF next + size - 1 <= Len(all_frames) THEN next + size - 1 ELSE Len(all_frames))

\* the locals of run_benchmark as the for loop over the chunks is entered,
\* with the server's side of the connection: the requests it has to answer,
\* whether a Frame header awaits its binary, and the frames on the wire
ClientStart(total, size) ==
    [pc |-> IF total = 0 THEN "done" ELSE "send",
     all_frames |-> AllFrames(total), batch_size |-> size, next |-> 1,
     batch |-> <<>>, pending |-> 0, binary_queue |-> <<>>,
     received |-> 0, errored |-> 0, total_bytes |-> 0,
     todo |-> <<>>, half |-> FALSE, wire |-> <<>>, others |-> 0,
     base |-> 0, mark |-> 0, delivered |-> <<>>, saved |-> <<>>]

\* the JPEG of the picture a request asks for
JpegOf(request) == [of |-> request.index, len |-> 1 + (request.offset % 3)]

\* `while pending > 0` at the end of an iteration: the loop goes on, or the
\* for loop takes the next chunk, or run_benchmark goes on to the statistics
LoopEnd(c) ==
    IF c.pending > 0 THEN c
    ELSE [c EXCEPT !.pc = IF c.next > Len(c.all_frames) THEN "done" ELSE "send"]

\* on_frame counting the header as a response
on_frameCountingHeader(c, msg) ==
    [c EXCEPT !.binary_queue = Append(@, <<msg.index, msg.offset>>),
              !.total_bytes = @ + msg.size,
              !.pending = @ - 1]

\* ServerMessage::Frame: binary_queue.push_back((index, offset))
on_frame(c, msg) ==
    [c EXCEPT !.binary_queue = Append(@, <<msg.index, msg.offset>>),
              !.total_bytes = @ + msg.size]

\* ServerMessage::FrameError: errored += 1; pending -= 1
on_frame_error(c, msg) == [c EXCEPT !.errored = @ + 1, !.pending = @ - 1]

\* Message::Binary(data): the front of binary_queue, if any, names the frame;
\* received += 1; pending -= 1
on_binary(c, data) ==
    IF c.binary_queue = <<>> THEN c
    ELSE [c EXCEPT !.binary_queue = Tail(@),
                   !.received = @ + 1,
                   !.pending = @ - 1,
                   !.saved = Append(@, [index |-> Head(c.binary_queue)[1],
                                        offset |-> Head(c.binary_queue)[2],
                                        data |-> data,
                                        pos |-> Len(c.delivered) + 1])]

\* one iteration of the while loop on the frame receiver.next() yields
on_message(c, msg) ==
    IF msg.type = "Frame" THEN on_frame(c, msg)
    ELSE IF msg.type = "FrameError" THEN on_frame_error(c, msg)
    ELSE IF msg.type = "Binary" THEN on_binary(c, msg.jpeg)
    ELSE c

ClientFrame ==
    UNCHANGED <<pc, video_path, video_data, loc, log, session, decoder, calls, encoder,
                elog, config, validations, extraction>>

\* the for loop takes a chunk and sends it as one RequestFrames
SendBatch ==
    /\ client.pc = "send"
    /\ LET batch == Chunk(client.all_frames, client.next, client.batch_size)
       IN  client' = [client EXCEPT !.pc = "recv", !.batch = batch,
                                    !.next = @ + Len(batch),
                                    !.pending = Len(batch), !.binary_queue = <<>>,
                                    !.todo = @ \o batch,
                                    !.base = client.received + client.errored,
                                    !.mark = Len(client.delivered)]
    /\ ClientFrame

\* the server answers its oldest request with a Frame header
ServerFrame ==
    /\ client.pc \in {"send", "recv", "done"}
    /\ client.todo # <<>> /\ ~client.half
    /\ LET request == Head(client.todo)
       IN  client' = [client EXCEPT
               !.half = TRUE,
               !.wire = Append(@, FrameMsg(request.index, request.offset,
                                           JpegOf(request).len))]
    /\ ClientFrame

\* the server sends the binary frame of the header it has just sent
ServerBinary ==
    /\ client.pc \in {"send", "recv", "done"}
    /\ client.half
    /\ client' = [client EXCEPT !.half = FALSE, !.todo = Tail(@),
                                !.wire = Append(@, BinaryFrame(JpegOf(Head(client.todo))))]
    /\ ClientFrame

\* the server answers its oldest request with a FrameError
ServerFrameError(e) ==
    /\ client.pc \in {"send", "recv", "done"}
    /\ client.todo # <<>> /\ ~client.half
    /\ LET request == Head(client.todo)
       IN  client' = [client EXCEPT
               !.todo = Tail(@),
               !.wire = Append(@, FrameErrorMsg(request.index, request.offset, e))]
    /\ ClientFrame

\* the server sends a frame that is no response, outside a pair
ServerOther(msg) ==
    /\ client.pc \in {"send", "recv", "done"}
    /\ ~client.half
    /\ client.others < MaxOthers
    /\ client' = [client EXCEPT !.others = @ + 1, !.wire = Append(@, msg)]
    /\ ClientFrame

\* receiver.next().await yields the next frame on the wire
ClientRecv ==
    /\ client.pc = "recv"
    /\ client.wire # <<>>
    /\ LET msg == Head(client.wire)
           c == on_message(client, msg)
       IN  client' = LoopEnd([c EXCEPT !.wire = Tail(@),
                                       !.delivered = Append(@, msg)])
    /\ ClientFrame

\* receiver.next().await yields None or an error: bail
ClientBail ==
    /\ client.pc = "recv"
    /\ client.wire = <<>>
    /\ client' = [client EXCEPT !.pc = "bailed"]
    /\ ClientFrame

InitClient ==
    /\ pc = "recv" /\ video_path = None /\ video_data = None /\ loc = NoLoc
    /\ log = <<>> /\ session = NoSession /\ decoder = None /\ calls = <<>>
    /\ encoder = None /\ elog = [supplied |-> None, calls |-> 0, encodes |-> 0]
    /\ config = DefaultConfig /\ validations = <<>>
    /\ extraction = NotExtracting(EmptyFile)
    /\ \E total \in 0..MaxFrames, size \in BatchSizes : client = ClientStart(total, size)

NextClient ==
    \/ SendBatch
    \/ ServerFrame
    \/ ServerBinary
    \/ \E e \in {"FrameNotFound"} : ServerFrameError(e)
    \/ \E msg \in {PongFrame("p"), VideoSetMsg("a.mp4", TRUE)} : ServerOther(msg)
    \/ ClientRecv
    \/ ClientBail

SpecClient == InitClient /\ [][NextClient]_vars

\* the responses among frames: binary frames and FrameErrors
IsResponseEnd(msg) == msg.type \in {"Binary", "FrameError"}
ResponsesIn(frames) == Len(SelectSeq(frames, IsResponseEnd))

\* the frames received since the batch in progress was sent
DeliveredInBatch == SubSeq(client.delivered, client.mark + 1, Len(client.delivered))

\* C38: while the loop of a batch of n runs, pending is n less the responses
\* received for it and is positive; once it has ended, exactly n responses
\* were received for the batch, none is left unread or unsent, and
\* received + errored is n more than when the batch was sent; every binary
\* frame is saved under the index and offset of the Frame header received
\* right before it, which is the header of the request the JPEG is of.
C38_BenchmarkLoopCounts ==
    /\ client.pc = "recv" =>
           /\ client.pending = Len(client.batch) - ResponsesIn(DeliveredInBatch)
           /\ client.pending > 0
    /\ (client.pc \in {"send", "done"} /\ client.batch # <<>>) =>
           /\ ResponsesIn(DeliveredInBatch) = Len(client.batch)
           /\ client.received + client.errored = client.base + Len(client.batch)
           /\ client.todo = <<>> /\ ~client.half
           /\ ResponsesIn(client.wire) = 0
    /\ client.pc # "off" =>
           /\ Len(client.binary_queue) <= 1
           /\ \A j \in 1..Len(client.saved) :
                  LET sv == client.saved[j]
                  IN  /\ sv.data.of = sv.index
                      /\ sv.pos > 1
                      /\ client.delivered[sv.pos].type = "Binary"
                      /\ client.delivered[sv.pos - 1].type = "Frame"
                      /\ client.delivered[sv.pos - 1].index = sv.index
                      /\ client.delivered[sv.pos - 1].offset = sv.offset
           /\ Len(client.saved) = client.received

\* a run of two batches is over: the second, of two requests, got a frame
\* and a FrameError, and a frame that is no response was received too
C38_Witness ==
    /\ client.pc = "done"
    /\ client.next > 3
    /\ Len(client.batch) = 2
    /\ client.base >= 1
    /\ client.received >= 2 /\ client.errored >= 1
    /\ ResponsesIn(DeliveredInBatch) = 2
    /\ \E j \in 1..Len(client.delivered) : client.delivered[j].type = "Pong"

=============================================================================
